---- MODULE Spec2Model ----
(***************************************************************************)
(* Masked Authenticated Messaging (mam.js): the channel state machine      *)
(* (createChannel, channelRoot, createMessage), the message parser and the *)
(* ternary cryptography under them (Curl sponge, pascal codec, mask layer, *)
(* ISS one-time signatures, Merkle tree, bit-sliced nonce search).         *)
(*                                                                         *)
(* Widths.  The source works on 243-trit hashes (729-trit sponge state,    *)
(* 81-tryte seeds, roots and side keys, 27 key fragments per security      *)
(* level).  Every algorithm is modelled as written, but over hashes of     *)
(* HASH_LENGTH = 27 trits: all the lengths the source derives from 243     *)
(* (STATE_LENGTH = 3 * 243, the 81-tryte strings = 243 / 3, the 81-trit    *)
(* nonce = 243 / 3, the thirds of checksumSecurity, the 27 fragments per   *)
(* level = 243 / 9, the Curl scan steps 364 = (729 - 1) / 2 and 365) are   *)
(* derived the same way from 27.  The round counts (27, 81), the tryte     *)
(* range (-13 .. 13), the truth table, the tryte table and the 64 lanes    *)
(* with their four seed words are the source's own.                        *)
(*                                                                         *)
(* Values.  A trit buffer (Int8Array) is a sequence of integers, index 0   *)
(* of the source being index 1 here.  A string is a sequence of one-       *)
(* character strings; JavaScript's undefined is the value Undefined.       *)
(***************************************************************************)
EXTENDS Integers, Sequences, FiniteSets, TLC

\* ------------------------------------------------------------------------
\* JavaScript array helpers

\* undefined: a value that is no string (as text it reads "undefined").
Undefined == <<"undefined">>

Min(a, b) == IF a < b THEN a ELSE b
Max(a, b) == IF a > b THEN a ELSE b

\* Relative index of Array.prototype.slice / subarray: negative counts from the end.
RelIndex(k, len) == IF k < 0 THEN Max(len + k, 0) ELSE Min(k, len)

\* TypedArray.slice(a, b) and subarray(a, b): 0-based, b exclusive, clipped.
Slice(s, a, b) ==
    LET from == RelIndex(a, Len(s))
        to == RelIndex(b, Len(s))
    IN  IF from < to THEN SubSeq(s, from + 1, to) ELSE <<>>

\* TypedArray.set(src, off): src copied over dst from index off (it fits).
SetAt(dst, src, off) ==
    SubSeq(dst, 1, off) \o src \o SubSeq(dst, off + Len(src) + 1, Len(dst))

Zeros(n) == [i \in 1..n |-> 0]

concatenate(arrays) ==
    LET RECURSIVE cat(_)
        cat(k) == IF k > Len(arrays) THEN <<>> ELSE arrays[k] \o cat(k + 1)
    IN  cat(1)

\* ------------------------------------------------------------------------
\* TrytesHelper

ALPHABET == <<"9", "A", "B", "C", "D", "E", "F", "G", "H", "I", "J", "K", "L", "M",
              "N", "O", "P", "Q", "R", "S", "T", "U", "V", "W", "X", "Y", "Z">>

TRYTES_TRITS == <<
    <<0, 0, 0>>, <<1, 0, 0>>, <<-1, 1, 0>>, <<0, 1, 0>>, <<1, 1, 0>>, <<-1, -1, 1>>,
    <<0, -1, 1>>, <<1, -1, 1>>, <<-1, 0, 1>>, <<0, 0, 1>>, <<1, 0, 1>>, <<-1, 1, 1>>,
    <<0, 1, 1>>, <<1, 1, 1>>, <<-1, -1, -1>>, <<0, -1, -1>>, <<1, -1, -1>>,
    <<-1, 0, -1>>, <<0, 0, -1>>, <<1, 0, -1>>, <<-1, 1, -1>>, <<0, 1, -1>>,
    <<1, 1, -1>>, <<-1, -1, 0>>, <<0, -1, 0>>, <<1, -1, 0>>, <<-1, 0, 0>> >>

\* The length of a hash in trits and in trytes.
HASH_LENGTH == 27
HASH_TRYTES == HASH_LENGTH \div 3

IsString(v) == v # Undefined

\* The test with /^[9A-Z]*$/ for its pattern: the empty text passes.
isTrytesOrEmpty(trytes) ==
    /\ IsString(trytes)
    /\ \A i \in 1..Len(trytes) : \E j \in 1..Len(ALPHABET) : ALPHABET[j] = trytes[i]

\* /^[9A-Z]+$/.test(trytes); undefined is tested as the text "undefined".
isTrytes(trytes) ==
    /\ IsString(trytes)
    /\ Len(trytes) > 0
    /\ \A i \in 1..Len(trytes) : \E j \in 1..Len(ALPHABET) : ALPHABET[j] = trytes[i]

\* /^[9A-Z]{81}$/.test(trytes), 81 being the trytes of a hash.
isHash(trytes) == isTrytes(trytes) /\ Len(trytes) = HASH_TRYTES

\* ALPHABET.indexOf(c), 0-based.
indexOf(c) == (CHOOSE j \in 1..Len(ALPHABET) : ALPHABET[j] = c) - 1

\* trits[i * 3 + j] = TRYTES_TRITS[ALPHABET.indexOf(value.charAt(i))][j]
toTrits(value) ==
    [k \in 1..(3 * Len(value)) |->
        TRYTES_TRITS[indexOf(value[((k - 1) \div 3) + 1]) + 1][((k - 1) % 3) + 1]]

\* A final group of fewer than three trits matches no table entry: no character.
fromTrits(trits) ==
    [i \in 1..(Len(trits) \div 3) |->
        ALPHABET[CHOOSE k \in 1..Len(ALPHABET) :
                    TRYTES_TRITS[k] = SubSeq(trits, (3 * i) - 2, 3 * i)]]

tritsValue(trits) ==
    LET RECURSIVE go(_, _)
        go(i, value) == IF i < 1 THEN value ELSE go(i - 1, (value * 3) + trits[i])
    IN  go(Len(trits), 0)

\* String.prototype.padEnd(n, "9").
padStart(s, n) == IF Len(s) >= n THEN s ELSE [i \in 1..(n - Len(s)) |-> "9"] \o s

padEnd(s, n) == IF Len(s) >= n THEN s ELSE s \o [i \in 1..(n - Len(s)) |-> "9"]

\* "9".repeat(n)
Nines(n) == [i \in 1..n |-> "9"]

\* ------------------------------------------------------------------------
\* Curl

STATE_LENGTH == 3 * HASH_LENGTH
TRUTH_TABLE == <<1, 0, -1, 2, 1, -1, 0, 2, -1, 1, 0>>

\* index += index < 365 ? 364 : -365, for a state of 729 trits.
NextIndex(index) ==
    IF index < (STATE_LENGTH + 1) \div 2 THEN index + (STATE_LENGTH - 1) \div 2
    ELSE index - (STATE_LENGTH + 1) \div 2

\* The n + 1 values the scanning index takes over n steps from p.
RECURSIVE ScanFrom(_, _)
ScanFrom(p, n) == IF n = 0 THEN <<p>> ELSE <<p>> \o ScanFrom(NextIndex(p), n - 1)

ScanFromZero == ScanFrom(0, STATE_LENGTH)

\* The scan visits every index once and is back at 0 after STATE_LENGTH steps,
\* so every round of a transform reads the same pairs (index, next index).
ScanIndex == [i \in 1..STATE_LENGTH |-> ScanFromZero[i] + 1] @@ <<>>
ScanNext == [i \in 1..STATE_LENGTH |-> ScanFromZero[i + 1] + 1] @@ <<>>

\* TRUTH_TABLE[a + (b << 2) + 5], tabulated over the trits a and b.
TruthOf == [a \in -1..1 |-> [b \in -1..1 |-> TRUTH_TABLE[a + (b * 4) + 5 + 1]] @@ <<>>] @@ <<>>

\* One round: state[i] = TRUTH_TABLE[copy[index] + (copy[index'] << 2) + 5].
CurlRound(stateCopy) ==
    [i \in 1..STATE_LENGTH |-> TruthOf[stateCopy[ScanIndex[i]]][stateCopy[ScanNext[i]]]]

\* The rounds of a transform: round rounds are the first half of them, then
\* the rest.
RECURSIVE CurlRounds(_, _)
CurlRounds(state, round) ==
    IF round = 0 THEN state
    ELSE IF round = 1 THEN CurlRound(state)
    ELSE LET half == CurlRounds(state, round \div 2)
         IN  IF half = half THEN CurlRounds(half, round - (round \div 2)) ELSE state

\* A sponge whose state starts with a last trit of the rate that is not 0.
CurlOfOne(rounds) ==
    [rounds |-> rounds,
     state |-> Zeros(HASH_LENGTH - 1) \o <<1>> \o Zeros(STATE_LENGTH - HASH_LENGTH)]

\* A sponge is its number of rounds and its state; new Curl(rounds).
Curl(rounds) == [rounds |-> rounds, state |-> Zeros(STATE_LENGTH)]

NUMBER_OF_ROUNDS == 81

\* Curl.transform
transform(sponge) == [sponge EXCEPT !.state = CurlRounds(sponge.state, sponge.rounds)]

\* Curl.reset
reset(sponge) == [sponge EXCEPT !.state = Zeros(STATE_LENGTH)]

\* Curl.rate(len)
rate(sponge, len) == Slice(sponge.state, 0, len)

\* Curl.absorb(trits, offset, length): the sponge afterwards.  (A comparison
\* x = x, here and below, has an argument evaluated at the call, as in the
\* source, and not where it is first read.)
RECURSIVE absorb(_, _, _, _)
absorb(sponge, trits, offset, length) ==
    LET limit == IF length < HASH_LENGTH THEN length ELSE HASH_LENGTH
        next == transform([sponge EXCEPT !.state =
                              SetAt(sponge.state, Slice(trits, offset, offset + limit), 0)])
    IN  IF sponge = sponge /\ trits = trits /\ length - HASH_LENGTH > 0
        THEN absorb(next, trits, offset + limit, length - HASH_LENGTH)
        ELSE next

\* Curl.squeeze(trits, 0, length) into a fresh buffer of that length: the trits
\* squeezed (squeeze) and the sponge afterwards (squeezed).
RECURSIVE squeeze(_, _)
squeeze(sponge, length) ==
    LET limit == IF length < HASH_LENGTH THEN length ELSE HASH_LENGTH
    IN  IF sponge = sponge /\ length - HASH_LENGTH > 0
        THEN Slice(sponge.state, 0, limit) \o squeeze(transform(sponge), length - HASH_LENGTH)
        ELSE Slice(sponge.state, 0, limit)

RECURSIVE squeezed(_, _)
squeezed(sponge, length) ==
    IF sponge = sponge /\ length - HASH_LENGTH > 0
    THEN squeezed(transform(sponge), length - HASH_LENGTH)
    ELSE transform(sponge)

\* ------------------------------------------------------------------------
\* Errors.  A function that can throw returns a record: threw is TRUE and
\* error the message, or threw is FALSE and the other fields its value.
\* A recursion of the source that never reaches its base case exhausts the
\* call stack, which JavaScript reports as a RangeError.

Thrown(message) == [threw |-> TRUE, error |-> message]
RangeError == Thrown("RangeError: Maximum call stack size exceeded")

\* ------------------------------------------------------------------------
\* pascal

ZERO == <<1, 0, 0, -1>>
RADIX == 3
TRITS_PER_TRYTE == 3

Negate(trits) == [i \in 1..Len(trits) |-> 0 - trits[i]]

roundThird(value) ==
    LET rem == value % RADIX
    IN  IF rem = 0 THEN value ELSE value + RADIX - rem

RECURSIVE minTrits(_, _)
minTrits(input, basis) ==
    IF input <= basis THEN 1 ELSE 1 + minTrits(input, 1 + (basis * RADIX))

Abs(value) == IF value < 0 THEN 0 - value ELSE value

encodedLength(value) ==
    LET length == roundThird(minTrits(Abs(value), 1))
    IN  length + (length \div RADIX)

\* From a negative input Math.floor(input / 3) stays negative: the recursion
\* of writeTrits reaches case 0 from the other inputs only.
writeTritsReturns(input) == input >= 0

\* The buffer after the writes (a write past its end is dropped).
RECURSIVE writeTrits(_, _, _)
writeTrits(input, trits, index) ==
    IF input = 0 THEN trits
    ELSE LET r == input % RADIX
             abs == (input \div RADIX) + (IF r > 1 THEN 1 ELSE 0)
             written == IF index < Len(trits)
                        THEN [trits EXCEPT ![index + 1] = IF r > 1 THEN -1 ELSE r]
                        ELSE trits
         IN  writeTrits(abs, written, index + 1)

valueToTrits(input, trits) ==
    LET written == writeTrits(input, trits, 0)
    IN  IF input >= 0 THEN written ELSE Negate(written)

\* The loop of pascalEncode over the trytes before the last one.
RECURSIVE EncodeTrytes(_, _, _, _, _)
EncodeTrytes(trits, encoding, index, i, length) ==
    IF ~(i < length - TRITS_PER_TRYTE) THEN [trits |-> trits, encoding |-> encoding, index |-> index]
    ELSE LET tritValue == Slice(trits, i, i + TRITS_PER_TRYTE)
         IN  IF tritsValue(tritValue) >= 0
             THEN EncodeTrytes(SetAt(trits, Negate(tritValue), i), encoding + 2 ^ index,
                               index + 1, i + TRITS_PER_TRYTE, length)
             ELSE EncodeTrytes(trits, encoding, index + 1, i + TRITS_PER_TRYTE, length)

pascalEncode(value) ==
    IF value = 0 THEN [threw |-> FALSE, trits |-> ZERO]
    ELSE LET length == roundThird(minTrits(Abs(value), 1))
             trits == valueToTrits(value, Zeros(encodedLength(value)))
         IN  IF ~writeTritsReturns(value) THEN RangeError
             ELSE LET loop == EncodeTrytes(trits, 0, 0, 0, length)
                      v == Slice(loop.trits, length - TRITS_PER_TRYTE,
                                 length - TRITS_PER_TRYTE + length)
                      negative == tritsValue(v) < 0
                      encoding == IF negative THEN loop.encoding + 2 ^ loop.index
                                  ELSE loop.encoding
                      last == IF negative
                              THEN SetAt(loop.trits, Negate(v), length - TRITS_PER_TRYTE)
                              ELSE loop.trits
                      checksumTrits == valueToTrits(encoding, Zeros(Len(last) - length))
                  IN  [threw |-> FALSE, trits |-> SetAt(last, checksumTrits, length)]

\* The end of the value trytes: the first tryte of positive value closes them.
\* Without one the recursion runs on the empty rest for ever: -1.
RECURSIVE end(_)
end(input) ==
    IF tritsValue(Slice(input, 0, TRITS_PER_TRYTE)) > 0 THEN TRITS_PER_TRYTE
    ELSE IF Len(input) = 0 THEN -1
    ELSE LET rest == end(Slice(input, TRITS_PER_TRYTE, Len(input)))
         IN  IF rest < 0 THEN -1 ELSE TRITS_PER_TRYTE + rest

\* A decoded value is a JavaScript number, which has no overflow; the parser
\* uses one to slice the payload, and a slice stops at the payload's end.  A
\* value beyond the limit is kept at the limit, with its sign.
DecodedLimit == 16777216
Clamp(v) == Max(0 - DecodedLimit, Min(DecodedLimit, v))

\* The loop of pascalDecode: result += 27^i * (+/-) value of tryte i, summed
\* from the last tryte down.
RECURSIVE DecodeTrytes(_, _, _, _)
DecodeTrytes(value, encoder, i, count) ==
    IF ~(i < count) THEN 0
    ELSE LET tryte == tritsValue(Slice(value, i * TRITS_PER_TRYTE, (i + 1) * TRITS_PER_TRYTE))
             tritsIntValue == IF ((encoder \div (2 ^ i)) % 2) # 0 THEN 0 - tryte ELSE tryte
             higher == DecodeTrytes(value, encoder, i + 1, count)
         IN  IF higher = higher THEN Clamp((27 * higher) + tritsIntValue) ELSE 0

pascalDecode(value) ==
    IF Len(value) >= Len(ZERO) /\ SubSeq(value, 1, 4) = ZERO THEN [threw |-> FALSE, value |-> 0, end |-> 4]
    ELSE LET encoderStart == end(value)
             inputEnd == encoderStart + (encoderStart \div TRITS_PER_TRYTE)
             encoder == tritsValue(Slice(value, encoderStart, inputEnd))
         IN  IF encoderStart < 0 THEN RangeError
             ELSE [threw |-> FALSE,
                   value |-> DecodeTrytes(value, encoder, 0, encoderStart \div TRITS_PER_TRYTE),
                   end |-> inputEnd]

\* ------------------------------------------------------------------------
\* mask

tritSum(left, right) ==
    LET sum == left + right
    IN  IF sum = 2 THEN -1 ELSE IF sum = -2 THEN 1 ELSE sum

maskHash(keyTrits) ==
    squeeze(absorb(Curl(81), keyTrits, 0, Len(keyTrits)), HASH_LENGTH)

\* Math.ceil(a / b) for a >= 0 and b > 0.
Ceil(a, b) == (a + b - 1) \div b

\* The loop of mask over the chunks c .. numChunks - 1.
RECURSIVE MaskChunks(_, _, _, _, _)
MaskChunks(payload, sponge, keyChunk, c, numChunks) ==
    IF ~(payload = payload /\ sponge = sponge /\ keyChunk = keyChunk /\ c < numChunks)
    THEN [payload |-> payload, sponge |-> sponge]
    ELSE LET chunk == Slice(payload, c * HASH_LENGTH, (c + 1) * HASH_LENGTH)
             absorbed == absorb(sponge, chunk, 0, Len(chunk))
             state == rate(absorbed, HASH_LENGTH)
             masked == [i \in 1..Len(chunk) |-> tritSum(chunk[i], keyChunk[i])]
             nextKey == [i \in 1..Len(keyChunk) |->
                            IF i <= Len(chunk) THEN state[i] ELSE keyChunk[i]]
         IN  MaskChunks(SetAt(payload, masked, c * HASH_LENGTH), absorbed, nextKey,
                        c + 1, numChunks)

\* mask(payload, sponge): the masked payload and the sponge afterwards.
mask(payload, sponge) ==
    MaskChunks(payload, sponge, rate(sponge, HASH_LENGTH), 0, Ceil(Len(payload), HASH_LENGTH))

\* The loop of unmask, a chunk of HASH_LENGTH indexes at a time: the trits of
\* the chunk are summed with the rate read at its first index, then the chunk
\* (the part of it inside the payload) is absorbed at its last index.
RECURSIVE UnmaskChunks(_, _, _, _)
UnmaskChunks(unmasked, sponge, c, limit) ==
    IF ~(unmasked = unmasked /\ sponge = sponge /\ c < limit)
    THEN [payload |-> unmasked, sponge |-> sponge]
    ELSE LET state == rate(sponge, HASH_LENGTH)
             chunk == Slice(unmasked, c, c + HASH_LENGTH)
             plain == [i \in 1..Len(chunk) |-> tritSum(chunk[i], 0 - state[i])]
             next == SetAt(unmasked, plain, c)
         IN  UnmaskChunks(next, absorb(sponge, next, c, HASH_LENGTH), c + HASH_LENGTH, limit)

\* unmask stopping at the last whole chunk: a shorter chunk after it is left
\* as it is.
unmaskWholeChunks(payload, sponge) ==
    UnmaskChunks(payload, sponge, 0, (Len(payload) \div HASH_LENGTH) * HASH_LENGTH)

\* unmask(payload, sponge): the unmasked payload and the sponge afterwards.
unmask(payload, sponge) ==
    UnmaskChunks(payload, sponge, 0, Ceil(Len(payload), HASH_LENGTH) * HASH_LENGTH)

\* ------------------------------------------------------------------------
\* issP27

\* 27 fragments of a hash each per security level, a fragment for every three
\* trytes of a hash: HASH_LENGTH / 9.
PRIVATE_KEY_NUM_FRAGMENTS == HASH_LENGTH \div 9
PRIVATE_KEY_FRAGMENT_LENGTH == PRIVATE_KEY_NUM_FRAGMENTS * HASH_LENGTH
MIN_TRYTE_VALUE == -13
MAX_TRYTE_VALUE == 13
MIN_TRIT_VALUE == -1
MAX_TRIT_VALUE == 1

\* One pass of the for loop of subseed from index i: add one, with carry.
RECURSIVE AddOne(_, _)
AddOne(subseedPreimage, i) ==
    IF ~(i < Len(subseedPreimage)) THEN subseedPreimage
    ELSE IF subseedPreimage[i + 1] >= MAX_TRIT_VALUE
         THEN AddOne([subseedPreimage EXCEPT ![i + 1] = MIN_TRIT_VALUE], i + 1)
         ELSE [subseedPreimage EXCEPT ![i + 1] = subseedPreimage[i + 1] + 1]

\* while (localIndex-- > 0)
RECURSIVE AddIndex(_, _)
AddIndex(subseedPreimage, localIndex) ==
    IF localIndex > 0 THEN AddIndex(AddOne(subseedPreimage, 0), localIndex - 1)
    ELSE subseedPreimage

subseed(seed, index) ==
    LET subseedPreimage == AddIndex(seed, index)
    IN  squeeze(absorb(Curl(27), subseedPreimage, 0, Len(subseedPreimage)), HASH_LENGTH)

\* sponge.reset(); sponge.absorb(buffer, 0, buffer.length); sponge.rate()
HashOnce(buffer) == rate(absorb(Curl(27), buffer, 0, Len(buffer)), HASH_LENGTH)

\* k iterations of the hash (none when k <= 0).
RECURSIVE HashTimes(_, _)
HashTimes(buffer, k) ==
    IF ~(k > 0) THEN buffer
    ELSE IF k = 1 THEN HashOnce(buffer)
    ELSE LET half == HashTimes(buffer, k \div 2)
         IN  IF half = half THEN HashTimes(half, k - (k \div 2)) ELSE buffer

\* The loop of digestFromSubseed over the fragments i .. length - 1: curl3.
RECURSIVE DigestFragments(_, _, _, _)
DigestFragments(curl1, curl3, i, length) ==
    IF ~(i < length) THEN curl3
    ELSE LET digest == HashTimes(squeeze(curl1, HASH_LENGTH),
                                 MAX_TRYTE_VALUE - MIN_TRYTE_VALUE + 1)
             next == absorb(curl3, digest, 0, Len(digest))
         IN  IF next = next
             THEN DigestFragments(squeezed(curl1, HASH_LENGTH), next, i + 1, length)
             ELSE curl3

digestFromSubseed(subSeed, securityLevel) ==
    LET length == (securityLevel * PRIVATE_KEY_FRAGMENT_LENGTH) \div HASH_LENGTH
        curl1 == absorb(Curl(27), subSeed, 0, Len(subSeed))
    IN  squeeze(DigestFragments(curl1, Curl(27), 0, length), HASH_LENGTH)

address(digests) ==
    squeeze(absorb(Curl(27), digests, 0, Len(digests)), HASH_LENGTH)

\* privateKeyFromSubseed without the hash of every fragment of the key.
privateKeyUnhashed(subSeed, securityLevel) ==
    squeeze(absorb(Curl(27), subSeed, 0, Len(subSeed)), securityLevel * PRIVATE_KEY_FRAGMENT_LENGTH)

privateKeyFromSubseed(subSeed, securityLevel) ==
    LET keyLength == securityLevel * PRIVATE_KEY_FRAGMENT_LENGTH
        keyTrits == squeeze(absorb(Curl(27), subSeed, 0, Len(subSeed)), keyLength)
    IN  concatenate([i \in 1..(keyLength \div HASH_LENGTH) |->
            rate(absorb(Curl(27), keyTrits, (i - 1) * HASH_LENGTH, HASH_LENGTH), HASH_LENGTH)])

\* hashTrits[i * 3] + (hashTrits[(i * 3) + 1] * 3) + (hashTrits[(i * 3) + 2] * 9)
TryteValue(hashTrits, i) ==
    hashTrits[(i * 3) + 1] + (hashTrits[(i * 3) + 2] * 3) + (hashTrits[(i * 3) + 3] * 9)

signature(hashTrits, key) ==
    concatenate([f \in 1..(Len(key) \div HASH_LENGTH) |->
        HashTimes(Slice(key, (f - 1) * HASH_LENGTH, f * HASH_LENGTH),
                  MAX_TRYTE_VALUE - TryteValue(hashTrits, f - 1))])

\* reduce((a, b) => a + b, 0)
RECURSIVE SumOf(_)
SumOf(trits) ==
    IF Len(trits) = 0 THEN 0
    ELSE IF Len(trits) = 1 THEN trits[1]
    ELSE SumOf(SubSeq(trits, 1, Len(trits) \div 2))
         + SumOf(SubSeq(trits, (Len(trits) \div 2) + 1, Len(trits)))

checksumSecurity(hash) ==
    IF SumOf(Slice(hash, 0, HASH_LENGTH \div 3)) = 0 THEN 1
    ELSE IF SumOf(Slice(hash, 0, (2 * HASH_LENGTH) \div 3)) = 0 THEN 2
    ELSE IF SumOf(hash) = 0 THEN 3 ELSE 0

\* bytes.set(innerBytes, i * HASH_LENGTH) throws a RangeError when innerBytes
\* does not fit: the last fragment of sig is a part of a fragment and has
\* been hashed (into a whole hash) at least once.
digestFromSignatureThrows(hash, sig) ==
    /\ Len(sig) % HASH_LENGTH # 0
    /\ TryteValue(hash, Len(sig) \div HASH_LENGTH) - MIN_TRYTE_VALUE > 0

digestFromSignature(hash, sig) ==
    LET bytes == concatenate([f \in 1..Ceil(Len(sig), HASH_LENGTH) |->
                     HashTimes(Slice(sig, (f - 1) * HASH_LENGTH, f * HASH_LENGTH),
                               TryteValue(hash, f - 1) - MIN_TRYTE_VALUE)])
    IN  rate(absorb(Curl(27), bytes, 0, Len(bytes)), HASH_LENGTH)

\* ------------------------------------------------------------------------
\* merkleHashGenerator

generateAddress(seedTrits, index, security) ==
    LET ss == subseed(seedTrits, index)
        dg == digestFromSubseed(ss, security)
    IN  [address |-> address(dg), privateKey |-> privateKeyFromSubseed(ss, security)]

\* ------------------------------------------------------------------------
\* MerkleNode, MerkleTree

\* An absent node (undefined): it counts for no leaf.
NoNode == [size |-> 0]
IsNode(node) == node.size > 0

\* new MerkleNode(left, right, addressTrits, privateKeyTrits); a private key
\* that is undefined is read as the empty buffer, as every reader of it does.
MerkleNode(left, right, addressTrits, privateKeyTrits) ==
    [left |-> left, right |-> right, size |-> left.size + right.size,
     addressTrits |-> addressTrits, privateKeyTrits |-> privateKeyTrits]

\* The subnodes of one level of buildTree.
Subnodes(leaves) ==
    [k \in 1..Ceil(Len(leaves), 2) |->
        LET left == leaves[(2 * k) - 1]
            right == IF 2 * k <= Len(leaves) THEN leaves[2 * k] ELSE NoNode
            addressTrits ==
                IF IsNode(right)
                THEN squeeze(absorb(absorb(Curl(27), left.addressTrits, 0, Len(left.addressTrits)),
                                    right.addressTrits, 0, Len(right.addressTrits)),
                             HASH_LENGTH)
                ELSE left.addressTrits
        IN  MerkleNode(left, right, addressTrits, <<>>)]

\* With no leaves there are no subnodes, and buildTree calls itself on them
\* for ever.
buildTreeReturns(leaves) == Len(leaves) > 0

RECURSIVE buildTree(_)
buildTree(leaves) ==
    LET subnodes == Subnodes(leaves)
    IN  IF leaves = leaves /\ Len(subnodes) = 1 THEN subnodes[1] ELSE buildTree(subnodes)

\* MerkleTree.root(rate, siblings, index): the loop over the chunks from c,
\* with i = 2^c; it returns the sponge's rate.
RECURSIVE RootChunks(_, _, _, _, _, _)
RootChunks(sponge, rate0, siblings, index, c, numChunks) ==
    IF ~(c < numChunks) THEN rate(sponge, HASH_LENGTH)
    ELSE LET chunk == Slice(siblings, c * HASH_LENGTH, (c + 1) * HASH_LENGTH)
             next == IF (index \div (2 ^ c)) % 2 = 0
                     THEN absorb(absorb(reset(sponge), rate0, 0, Len(rate0)), chunk, 0, Len(chunk))
                     ELSE absorb(absorb(reset(sponge), chunk, 0, Len(chunk)), rate0, 0, Len(rate0))
         IN  RootChunks(next, rate(next, HASH_LENGTH), siblings, index, c + 1, numChunks)

MerkleTreeRoot(rate0, siblings, index) ==
    RootChunks(Curl(27), rate0, siblings, index, 0, Ceil(Len(siblings), HASH_LENGTH))

\* The while loop of getSubtree: the private key and the leaves pushed.
RECURSIVE Descend(_, _, _)
Descend(node, index, leaves) ==
    IF ~IsNode(node) THEN [key |-> <<>>, leaves |-> leaves]
    ELSE IF ~IsNode(node.left) THEN [key |-> node.privateKeyTrits, leaves |-> leaves]
    ELSE IF index < node.left.size
         THEN Descend(node.left, index,
                      Append(leaves, IF IsNode(node.right) THEN node.right ELSE node.left))
         ELSE Descend(node.right, index - node.left.size, Append(leaves, node.left))

Reverse(seq) == [i \in 1..Len(seq) |-> seq[Len(seq) + 1 - i]]

\* tree.getSubtree(index) of the tree of the given root node.
getSubtree(tree, index) ==
    IF tree.size = 1
    THEN [key |-> IF IsNode(tree.left) THEN tree.left.privateKeyTrits ELSE <<>>,
          leaves |-> <<>>]
    ELSE IF index < tree.size
         THEN LET found == Descend(tree, index, <<>>)
              IN  [key |-> found.key, leaves |-> Reverse(found.leaves)]
         ELSE [key |-> <<>>, leaves |-> <<>>]

\* ------------------------------------------------------------------------
\* HammingDiver
\*
\* The source keeps, for every index of the sponge state, two 64-bit words
\* (low and high): bit l of the pair is the trit of lane l.  Every operation
\* it applies to the words is bitwise, so the words are kept here lane by
\* lane: the search state is a function from the lanes 0 .. 63 to the lane's
\* sequence of bit pairs, a pair being <<low bit, high bit>> as the number
\* low + 2 * high.

Lanes == 0..63
ROUNDS == 27

Pair(low, high) == low + (2 * high)
LowBit(pair) == pair % 2
HighBit(pair) == pair \div 2

HexDigits == <<"0", "1", "2", "3", "4", "5", "6", "7", "8", "9", "A", "B", "C", "D", "E", "F">>
HexValue(c) == (CHOOSE j \in 1..16 : HexDigits[j] = c) - 1

\* Bit l of a 64-bit word written as 16 hexadecimal digits.
BitOf(word, l) == (HexValue(word[16 - (l \div 4)]) \div (2 ^ (l % 4))) % 2

HIGH_0 == <<"B","6","D","B","6","D","B","6","D","B","6","D","B","6","D","B">>
HIGH_1 == <<"8","F","C","7","E","3","F","1","F","8","F","C","7","E","3","F">>
HIGH_2 == <<"F","F","C","0","1","F","F","F","F","8","0","3","F","F","F","F">>
HIGH_3 == <<"0","0","3","F","F","F","F","F","F","F","F","F","F","F","F","F">>
LOW_0 == <<"D","B","6","D","B","6","D","B","6","D","B","6","D","B","6","D">>
LOW_1 == <<"F","1","F","8","F","C","7","E","3","F","1","F","8","F","C","7">>
LOW_2 == <<"7","F","F","F","E","0","0","F","F","F","F","C","0","1","F","F">>
LOW_3 == <<"F","F","C","0","0","0","0","0","0","7","F","F","F","F","F","F">>

\* tritsToBigInt: MAX_VALUE is all ones, MIN_VALUE all zeros, in every lane.
tritsToBigInt(input, length) ==
    [i \in 1..Max(Len(input), length) |->
        IF i > Len(input) THEN Pair(1, 1)
        ELSE IF input[i] = 0 THEN Pair(1, 1)
        ELSE IF input[i] = 1 THEN Pair(0, 1)
        ELSE Pair(1, 0)]

\* The four seed words at offset .. offset + 3, in lane l.
SeedPairs(l) ==
    <<Pair(BitOf(LOW_0, l), BitOf(HIGH_0, l)), Pair(BitOf(LOW_1, l), BitOf(HIGH_1, l)),
      Pair(BitOf(LOW_2, l), BitOf(HIGH_2, l)), Pair(BitOf(LOW_3, l), BitOf(HIGH_3, l))>>

prepareTrits(trits, offset) ==
    LET initialState == tritsToBigInt(trits, STATE_LENGTH)
    IN  [l \in Lanes |-> SetAt(initialState, SeedPairs(l), offset)]

\* states.low[i] = high.xor(low); states.high[i] = low, in one lane.
IncrementPair(pair) ==
    Pair((HighBit(pair) + LowBit(pair)) % 2, LowBit(pair))

\* The loop of increment from index i: the states and the value returned.
\* high.and(low.not()) equals 0 when it is 0 in every lane.
RECURSIVE IncrementFrom(_, _, _, _)
IncrementFrom(states, i, fromIndex, toIndex) ==
    IF ~(i < toIndex) THEN [states |-> states, result |-> (toIndex - fromIndex) + 1]
    ELSE LET next == [l \in Lanes |->
                         LET lane == states[l]
                         IN  [k \in 1..Len(lane) |->
                                 IF k = i + 1 THEN IncrementPair(lane[k]) ELSE lane[k]]]
         IN  IF \A l \in Lanes : ~(HighBit(states[l][i + 1]) = 1 /\ LowBit(states[l][i + 1]) = 0)
             THEN [states |-> next, result |-> toIndex - fromIndex]
             ELSE IncrementFrom(next, i + 1, fromIndex, toIndex)

increment(states, fromIndex, toIndex) == IncrementFrom(states, fromIndex, fromIndex, toIndex)

\* The body of the inner loop of HammingDiver.transform with the low word set
\* to delta, not to its complement.
SlicedCellOfDelta(first, second) ==
    LET alpha == LowBit(first) = 1
        beta == HighBit(first) = 1
        gamma == HighBit(second) = 1
        lowXorBeta == (LowBit(second) = 1) # beta
        delta == (alpha \/ ~gamma) /\ lowXorBeta
    IN  Pair(IF delta THEN 1 ELSE 0, IF (alpha # gamma) \/ delta THEN 1 ELSE 0)

\* The body of the inner loop of HammingDiver.transform on the bits of one
\* lane: the new pair at stateIndex from the pairs at the two scratchpad
\* indexes.
SlicedCell(first, second) ==
    LET alpha == LowBit(first) = 1
        beta == HighBit(first) = 1
        gamma == HighBit(second) = 1
        lowXorBeta == (LowBit(second) = 1) # beta
        notGamma == ~gamma
        alphaOrNotGamma == alpha \/ notGamma
        delta == alphaOrNotGamma /\ lowXorBeta
        alphaXorGamma == alpha # gamma
    IN  Pair(IF ~delta THEN 1 ELSE 0, IF alphaXorGamma \/ delta THEN 1 ELSE 0)

SlicedTable == [first \in 0..3 |-> [second \in 0..3 |-> SlicedCell(first, second)] @@ <<>>] @@ <<>>

SlicedRound(scratchpad) ==
    [i \in 1..STATE_LENGTH |-> SlicedTable[scratchpad[ScanIndex[i]]][scratchpad[ScanNext[i]]]]

RECURSIVE SlicedRounds(_, _)
SlicedRounds(lane, round) ==
    IF round = 0 THEN lane
    ELSE IF round = 1 THEN SlicedRound(lane)
    ELSE LET half == SlicedRounds(lane, round \div 2)
         IN  IF half = half THEN SlicedRounds(half, round - (round \div 2)) ELSE lane

\* HammingDiver.transform
diverTransform(searchStates) == [l \in Lanes |-> SlicedRounds(searchStates[l], ROUNDS)]

\* sum over the indexes of third j of one lane: a low bit of 0 counts -1,
\* else a high bit of 0 counts +1.
RECURSIVE ThirdSum(_, _, _)
ThirdSum(lane, k, last) ==
    IF k > last THEN 0
    ELSE (IF LowBit(lane[k + 1]) = 0 THEN -1 ELSE IF HighBit(lane[k + 1]) = 0 THEN 1 ELSE 0)
         + ThirdSum(lane, k + 1, last)

\* The loop over j of check going on after a third at which the sum is 0.
RECURSIVE LaneSumOfAllThirds(_, _, _, _)
LaneSumOfAllThirds(lane, securityLevel, j, sum) ==
    IF ~(j < securityLevel) THEN sum
    ELSE LaneSumOfAllThirds(lane, securityLevel, j + 1,
                            sum + ThirdSum(lane, (j * HASH_LENGTH) \div 3,
                                           (((j + 1) * HASH_LENGTH) \div 3) - 1))

\* The loop over j of check in one lane: the sum it ends with.
RECURSIVE LaneSum(_, _, _, _)
LaneSum(lane, securityLevel, j, sum) ==
    IF ~(j < securityLevel) THEN sum
    ELSE LET next == sum + ThirdSum(lane, (j * HASH_LENGTH) \div 3,
                                    (((j + 1) * HASH_LENGTH) \div 3) - 1)
         IN  IF next = 0 /\ j < securityLevel - 1 THEN 1
             ELSE LaneSum(lane, securityLevel, j + 1, next)

\* The loop over the lanes of check, over the n lanes from lane i: the first
\* lane of sum 0, and i + n, the lane the loop ends at, when there is none.
\* The first lane of sum 0 is in the first half of the lanes, or else in the
\* rest.
RECURSIVE CheckFrom(_, _, _, _)
CheckFrom(securityLevel, states, i, n) ==
    IF n = 1
    THEN IF LaneSum(states[i], securityLevel, 0, 0) = 0 THEN i ELSE i + 1
    ELSE LET first == CheckFrom(securityLevel, states, i, n \div 2)
         IN  IF first < i + (n \div 2) THEN first
             ELSE CheckFrom(securityLevel, states, i + (n \div 2), n - (n \div 2))

\* check looking at the first third of the hash whatever the security level.
checkFirstThird(securityLevel, states) ==
    LET i == CheckFrom(1, states, 0, 64)
    IN  IF i < 64 THEN i ELSE 0

\* HammingDiver.check: 0 when the loop ends with no lane of sum 0.
check(securityLevel, states) ==
    LET i == CheckFrom(securityLevel, states, 0, 64)
    IN  IF i < 64 THEN i ELSE 0

trinaryGet(states, arrLength, index) ==
    LET lane == states[index]
    IN  [i \in 1..arrLength |->
            IF LowBit(lane[i]) = 1 /\ HighBit(lane[i]) = 0 THEN -1
            ELSE IF LowBit(lane[i]) = 0 /\ HighBit(lane[i]) = 1 THEN 1
            ELSE 0]

\* The while loop of search.
RECURSIVE SearchLoop(_, _, _, _)
SearchLoop(state, size, securityLevel, offset) ==
    LET incrementResult == increment(state, offset + ((size * 2) \div 3), offset + size)
        nextSize == Min(roundThird(offset + ((size * 2) \div 3) + incrementResult.result),
                        HASH_LENGTH) - offset
        index == check(securityLevel, diverTransform(incrementResult.states))
    IN  IF state = state /\ index = 0 THEN SearchLoop(incrementResult.states, nextSize, securityLevel, offset)
        ELSE trinaryGet(incrementResult.states, nextSize, index)

search(trits, securityLevel, length, offset) ==
    SearchLoop(prepareTrits(trits, offset), Min(length, HASH_LENGTH) - offset,
               securityLevel, offset)

\* ------------------------------------------------------------------------
\* MerkleTree constructor

\* Messages published on one channel, and the windows a caller sets: start up
\* to MaxStart, count and nextCount up to MaxCount.
MaxMessages == 2
MaxStart == 1
MaxCount == 2

\* The seed of the channels whose leaves are tabulated, and the leaf indexes
\* tabulated for it: with every security those of the windows createChannel
\* and createMessage make, with security 1 those of the windows a caller sets,
\* which start at -1 or later.
LeafSeed == <<"M", "A", "M", "9", "S", "E", "E", "D", "9">>
ChannelLeaf == MaxMessages
WindowLeaf == MaxStart + ((MaxMessages + 1) * MaxCount) - 1

\* generateAddress of every tabulated leaf, computed once.
LeafTable ==
    [index \in (0 - 1)..Max(ChannelLeaf, WindowLeaf) |->
        [security \in (IF index \in 0..ChannelLeaf THEN 1..3 ELSE 1..1) |->
            generateAddress(toTrits(LeafSeed), index, security)]]

\* merkleHashGenerator.generateAddress(seedTrits, index, security), read from
\* the table where it is tabulated.
leafAddress(seed, index, security) ==
    IF seed = LeafSeed /\ index \in DOMAIN LeafTable /\ security \in DOMAIN LeafTable[index]
    THEN LeafTable[index][security]
    ELSE generateAddress(toTrits(seed), index, security)

\* The leaves of new MerkleTree(seed, index, count, security).
treeLeaf(addressPrivateKey) ==
    [MerkleNode(NoNode, NoNode, addressPrivateKey.address, addressPrivateKey.privateKey)
        EXCEPT !.size = 1]

treeLeaves(seed, index, count, security) ==
    [i \in 1..count |-> treeLeaf(leafAddress(seed, index + (i - 1), security))]

\* new MerkleTree(seed, index, count, security) returns when buildTree does:
\* the loop pushes no leaf for a count that is not positive.
MerkleTreeReturns(count) == count > 0

\* The root node of new MerkleTree(seed, index, count, security).
MerkleTree(seed, index, count, security) ==
    buildTree(treeLeaves(seed, index, count, security))

\* ------------------------------------------------------------------------
\* guards, channel

\* !value of a string or undefined: undefined and the empty string are falsy.
Falsy(value) == value = Undefined \/ value = <<>>

\* validateModeKey without its last check: a side key passes in every mode.
validateModeKeyAnyMode(mode, sideKey) ==
    IF mode # "public" /\ mode # "private" /\ mode # "restricted"
    THEN "The mode must be public, private or restricted"
    ELSE IF mode = "restricted" /\ Falsy(sideKey)
    THEN "You must provide a sideKey for restricted mode"
    ELSE IF mode = "restricted" /\ ~isTrytes(sideKey)
    THEN "The sideKey must be in trytes"
    ELSE IF mode = "restricted" /\ Len(sideKey) > HASH_TRYTES
    THEN "The sideKey must be maximum length 81 trytes"
    ELSE "returns"

\* validateModeKey(mode, sideKey): the message of the error it throws, or
\* "returns".
validateModeKey(mode, sideKey) ==
    IF mode # "public" /\ mode # "private" /\ mode # "restricted"
    THEN "The mode must be public, private or restricted"
    ELSE IF mode = "restricted" /\ Falsy(sideKey)
    THEN "You must provide a sideKey for restricted mode"
    ELSE IF mode = "restricted" /\ ~isTrytes(sideKey)
    THEN "The sideKey must be in trytes"
    ELSE IF mode = "restricted" /\ Len(sideKey) > HASH_TRYTES
    THEN "The sideKey must be maximum length 81 trytes"
    ELSE IF mode # "restricted" /\ ~Falsy(sideKey)
    THEN "sideKey is only used in restricted mode"
    ELSE "returns"

\* createChannel(seed, security, mode, sideKey).  The state returned has no
\* nextRoot property: reading it gives undefined.
createChannel(seed, security, mode, sideKey) ==
    IF ~isHash(seed) THEN Thrown("The seed must be 81 trytes long")
    ELSE IF security < 1 \/ security > 3 THEN Thrown("Security must be between 1 and 3")
    ELSE IF validateModeKey(mode, sideKey) # "returns" THEN Thrown(validateModeKey(mode, sideKey))
    ELSE [threw |-> FALSE,
          state |-> [seed |-> seed,
                     mode |-> mode,
                     sideKey |-> IF mode = "restricted"
                                 THEN padEnd(IF sideKey = Undefined THEN <<>> ELSE sideKey, HASH_TRYTES)
                                 ELSE Undefined,
                     security |-> security,
                     start |-> 0,
                     count |-> 1,
                     nextCount |-> 1,
                     index |-> 0,
                     nextRoot |-> Undefined]]

\* channelRoot reading the tree of the window after the state's.
channelRootOfNext(channelState) ==
    IF channelState.start < 0 THEN Thrown("channelState.start must be >= 0")
    ELSE IF channelState.count <= 0 THEN Thrown("channelState.count must be > 0")
    ELSE IF channelState.security < 1 \/ channelState.security > 3
    THEN Thrown("channelState.security must be between 1 and 3")
    ELSE IF ~MerkleTreeReturns(channelState.count) THEN RangeError
    ELSE [threw |-> FALSE,
          root |-> fromTrits(MerkleTree(channelState.seed, channelState.start + channelState.count,
                                        channelState.count, channelState.security).addressTrits)]

\* channelRoot(channelState) of a channel state that is provided.
channelRoot(channelState) ==
    IF channelState.start < 0 THEN Thrown("channelState.start must be >= 0")
    ELSE IF channelState.count <= 0 THEN Thrown("channelState.count must be > 0")
    ELSE IF channelState.security < 1 \/ channelState.security > 3
    THEN Thrown("channelState.security must be between 1 and 3")
    ELSE IF ~MerkleTreeReturns(channelState.count) THEN RangeError
    ELSE [threw |-> FALSE,
          root |-> fromTrits(MerkleTree(channelState.seed, channelState.start,
                                        channelState.count, channelState.security).addressTrits)]

\* advance moving start by count, the size of the window left.
advanceByCount(channelState, nextRoot) ==
    LET advanced == IF channelState.index = channelState.count - 1
                    THEN [channelState EXCEPT !.start = channelState.count + channelState.start,
                                              !.index = 0]
                    ELSE [channelState EXCEPT !.index = channelState.index + 1]
    IN  [advanced EXCEPT !.nextRoot = nextRoot]

\* advance comparing index with count: the window is left one message late.
advanceLate(channelState, nextRoot) ==
    LET advanced == IF channelState.index = channelState.count
                    THEN [channelState EXCEPT !.start = channelState.nextCount + channelState.start,
                                              !.index = 0]
                    ELSE [channelState EXCEPT !.index = channelState.index + 1]
    IN  [advanced EXCEPT !.nextRoot = nextRoot]

\* advance making the window left part of the next one.
advanceResizing(channelState, nextRoot) ==
    LET advanced == IF channelState.index = channelState.count - 1
                    THEN [channelState EXCEPT !.start = channelState.nextCount + channelState.start,
                                              !.count = channelState.nextCount + channelState.count,
                                              !.index = 0]
                    ELSE [channelState EXCEPT !.index = channelState.index + 1]
    IN  [advanced EXCEPT !.nextRoot = nextRoot]

\* The end of createMessage: the channel state advanced and its nextRoot set.
advance(channelState, nextRoot) ==
    LET advanced == IF channelState.index = channelState.count - 1
                    THEN [channelState EXCEPT !.start = channelState.nextCount + channelState.start,
                                              !.index = 0]
                    ELSE [channelState EXCEPT !.index = channelState.index + 1]
    IN  [advanced EXCEPT !.nextRoot = nextRoot]

\* The trits of no side key, whatever the channel's.
noSideKeyTrits(channelState) == toTrits(Nines(HASH_TRYTES))

\* createMessage: toTrits(channelState.sideKey ?? "9".repeat(81))
sideKeyTritsOf(channelState) ==
    toTrits(IF channelState.sideKey = Undefined THEN Nines(HASH_TRYTES)
            ELSE channelState.sideKey)

\* createMessage: the payload so far absorbed.
absorbPayload(sponge, payload) ==
    [payload |-> payload, sponge |-> absorb(sponge, payload, 0, Len(payload))]

\* createMessage: payload = concatenate([payload, mask(trits, sponge)]), with
\* the sponge the masking leaves.
appendMasked(so, trits) ==
    LET masked == mask(trits, so.sponge)
    IN  IF so = so /\ trits = trits
        THEN [payload |-> concatenate(<<so.payload, masked.payload>>), sponge |-> masked.sponge]
        ELSE so

\* createMessage: the nonce found for the sponge's state, masked and appended.
appendNonce(so, security) ==
    IF so # so THEN so
    ELSE appendMasked(so, search(rate(so.sponge, STATE_LENGTH), security, HASH_LENGTH \div 3, 0))

\* createMessage: the signature of the sponge's rate, the number of siblings
\* and the siblings, masked and appended.
appendSignature(so, subtree) ==
    LET subtreeTrits == concatenate([l \in 1..Len(subtree.leaves) |->
                                        subtree.leaves[l].addressTrits])
        siblingsCount == Len(subtreeTrits) \div HASH_LENGTH
    IN  IF so # so \/ subtree # subtree THEN so
        ELSE
        appendMasked(so, concatenate(<<signature(rate(so.sponge, HASH_LENGTH), subtree.key),
                                       pascalEncode(siblingsCount).trits,
                                       subtreeTrits>>))

\* createMessage: the payload padded with zeros to a multiple of 3 trits.
padPayload(payload) ==
    LET nextThird == Len(payload) % 3
    IN  IF nextThird # 0 THEN concatenate(<<payload, Zeros(3 - nextThird)>>) ELSE payload

\* The end of createMessage: the payload padded, the message returned and the
\* channel state advanced.  The number of zeros the padding appended is kept
\* beside them.
Emitted(channelState, tree, nextRootTrits, payload) ==
    IF payload # payload THEN Thrown("")
    ELSE
    [threw |-> FALSE,
     message |-> [payload |-> fromTrits(padPayload(payload)),
                  root |-> fromTrits(tree.addressTrits),
                  address |-> fromTrits(IF channelState.mode = "public" THEN tree.addressTrits
                                        ELSE maskHash(tree.addressTrits))],
     padding |-> Len(padPayload(payload)) - Len(payload),
     state |-> advance(channelState, fromTrits(nextRootTrits))]

\* The part of createMessage after the trees are built: the message and the
\* channel state it leaves.
MessageOf(channelState, message, tree, nextRootTree) ==
    LET nextRootTrits == nextRootTree.addressTrits
        messageTrits == toTrits(message)
        sideKeyTrits == sideKeyTritsOf(channelState)
        sponge == absorb(absorb(Curl(27), sideKeyTrits, 0, Len(sideKeyTrits)),
                         tree.addressTrits, 0, Len(tree.addressTrits))
    IN  IF tree # tree \/ nextRootTree # nextRootTree THEN Thrown("")
        ELSE
        Emitted(channelState, tree, nextRootTrits,
                appendSignature(
                    appendNonce(
                        appendMasked(
                            absorbPayload(sponge,
                                concatenate(<<pascalEncode(channelState.index).trits,
                                              pascalEncode(Len(messageTrits)).trits>>)),
                            concatenate(<<nextRootTrits, messageTrits>>)),
                        channelState.security),
                    getSubtree(tree, channelState.index)).payload)

\* createMessage(channelState, message): the error thrown and the channel
\* state untouched, or the message returned and the channel state updated.
createMessage(channelState, message) ==
    IF ~isTrytes(message)
    THEN [threw |-> TRUE, error |-> "The message must be in trytes", state |-> channelState]
    ELSE IF ~MerkleTreeReturns(channelState.count) \/ ~MerkleTreeReturns(channelState.nextCount)
            \/ ~writeTritsReturns(channelState.index)
    THEN [threw |-> TRUE, error |-> RangeError.error, state |-> channelState]
    ELSE MessageOf(channelState, message,
                   MerkleTree(channelState.seed, channelState.start,
                              channelState.count, channelState.security),
                   MerkleTree(channelState.seed, channelState.start + channelState.count,
                              channelState.nextCount, channelState.security))

\* ------------------------------------------------------------------------
\* parser

\* toTrits reads TRYTES_TRITS[-1][0] for a character outside the alphabet: a
\* TypeError.
toTritsThrows(value) ==
    \E i \in 1..Len(value) : \A j \in 1..Len(ALPHABET) : ALPHABET[j] # value[i]

\* verifySiblings without the comparison of the roots.
verifySiblingsOnly(signed, siblingsCountData, decryptedMetadata, siblingsOffset, index, root) ==
    IF siblingsCountData.threw THEN RangeError.error ELSE "returns"

\* parseMessage: the root recalculated from the signature's digest and the
\* siblings, compared with the root given.  The message of the error thrown,
\* or "returns".
verifySiblings(signed, siblingsCountData, decryptedMetadata, siblingsOffset, index, root) ==
    LET siblingsCount == siblingsCountData.value
        siblingsStart == siblingsOffset + siblingsCountData.end
        siblings == Slice(decryptedMetadata, siblingsStart,
                          siblingsStart + (siblingsCount * HASH_LENGTH))
        recalculatedRoot == IF siblingsCount # 0 THEN MerkleTreeRoot(signed, siblings, index)
                            ELSE signed
    IN  IF siblingsCountData.threw THEN RangeError.error
        ELSE IF signed = signed /\ fromTrits(recalculatedRoot) # root THEN "Signature did not match expected root"
        ELSE "returns"

\* parseMessage: the sponge reset, the digest absorbed, its rate.
signedRoot(digest) == rate(absorb(Curl(27), digest, 0, Len(digest)), HASH_LENGTH)

\* The end of parseMessage: the signature's digest, the root recalculated
\* from the siblings and its comparison with the root given.  The message of
\* the error thrown, or "returns".
verifyRoot(securityLevel, hmac, decryptedMetadata, index, root) ==
    LET sig == Slice(decryptedMetadata, 0, securityLevel * PRIVATE_KEY_FRAGMENT_LENGTH)
    IN  IF digestFromSignatureThrows(hmac, sig) THEN "RangeError: offset is out of bounds"
        ELSE verifySiblings(signedRoot(digestFromSignature(hmac, sig)),
                            pascalDecode(Slice(decryptedMetadata,
                                               securityLevel * PRIVATE_KEY_FRAGMENT_LENGTH,
                                               Len(decryptedMetadata))),
                            decryptedMetadata,
                            securityLevel * PRIVATE_KEY_FRAGMENT_LENGTH, index, root)

\* parseMessage: the next root, the message and the nonce unmasked in turn,
\* the sponge's rate after them, and the rest of the payload unmasked.
unmaskFields(payloadTrits, nextRootStart, messageLength, sponge) ==
    LET messageStart == nextRootStart + HASH_LENGTH
        messageEnd == messageStart + messageLength
        nextRoot == unmask(Slice(payloadTrits, nextRootStart, nextRootStart + HASH_LENGTH), sponge)
        message == unmask(Slice(payloadTrits, messageStart, messageStart + messageLength),
                          nextRoot.sponge)
        nonce == unmask(Slice(payloadTrits, messageEnd, messageEnd + (HASH_LENGTH \div 3)),
                        message.sponge)
    IN  IF payloadTrits # payloadTrits \/ sponge # sponge THEN <<>>
        ELSE
        [nextRoot |-> nextRoot.payload,
         message |-> message.payload,
         hmac |-> rate(nonce.sponge, HASH_LENGTH),
         decryptedMetadata |->
            unmask(Slice(payloadTrits, messageEnd + Len(nonce.payload), Len(payloadTrits)),
                   nonce.sponge).payload]

\* parseMessage: what it returns once the root is verified.
parsedFields(verified, fields) ==
    IF verified # "returns" THEN Thrown(verified)
    ELSE [threw |-> FALSE,
          nextRoot |-> fromTrits(fields.nextRoot),
          message |-> fromTrits(fields.message)]

\* parseMessage: the security level checked and the root verified.
verifyFields(fields, index, root) ==
    LET securityLevel == checksumSecurity(fields.hmac)
    IN  IF fields = fields /\ securityLevel = 0
        THEN Thrown("Message Hash did not have a hamming weight of zero, security level is invalid")
        ELSE parsedFields(verifyRoot(securityLevel, fields.hmac, fields.decryptedMetadata,
                                     index, root), fields)

\* The part of parseMessage after the two length fields are decoded.
ParseFields(payloadTrits, root, channelKeyTrits, indexData, messageData) ==
    LET rootTrits == toTrits(root)
        nextRootStart == indexData.end + messageData.end
        sponge == absorb(absorb(absorb(Curl(27), channelKeyTrits, 0, Len(channelKeyTrits)),
                                rootTrits, 0, Len(rootTrits)),
                         payloadTrits, 0, nextRootStart)
    IN  verifyFields(unmaskFields(payloadTrits, nextRootStart, messageData.value, sponge),
                     indexData.value, root)

\* parseMessage(payload, root, channelKey)
parseMessage(payload, root, channelKey) ==
    LET channelKeyText == IF channelKey = Undefined THEN Nines(HASH_TRYTES) ELSE channelKey
        payloadTrits == toTrits(payload)
        indexData == pascalDecode(payloadTrits)
        messageData == pascalDecode(Slice(payloadTrits, indexData.end, Len(payloadTrits)))
    IN  IF toTritsThrows(payload) \/ toTritsThrows(root) \/ toTritsThrows(channelKeyText)
        THEN Thrown("TypeError: Cannot read properties of undefined")
        ELSE IF indexData.threw THEN RangeError
        ELSE IF messageData.threw THEN RangeError
        ELSE ParseFields(payloadTrits, root, toTrits(channelKeyText), indexData, messageData)

\* parseMessage: the security level it derives, checksumSecurity of the
\* sponge's rate after the nonce is unmasked (of a payload whose two length
\* fields decode).
parsedSecurityLevel(payload, root, channelKey) ==
    LET channelKeyText == IF channelKey = Undefined THEN Nines(HASH_TRYTES) ELSE channelKey
        payloadTrits == toTrits(payload)
        indexData == pascalDecode(payloadTrits)
        messageData == pascalDecode(Slice(payloadTrits, indexData.end, Len(payloadTrits)))
        rootTrits == toTrits(root)
        nextRootStart == indexData.end + messageData.end
        sponge == absorb(absorb(absorb(Curl(27), toTrits(channelKeyText), 0,
                                       Len(toTrits(channelKeyText))),
                                rootTrits, 0, Len(rootTrits)),
                         payloadTrits, 0, nextRootStart)
    IN  checksumSecurity(unmaskFields(payloadTrits, nextRootStart, messageData.value,
                                      sponge).hmac)

\* decodeAddress masking the root in every mode.
decodeAddressMasked(root, mode) == fromTrits(maskHash(toTrits(root)))

\* client: decodeAddress(root, mode)
decodeAddress(root, mode) ==
    IF mode = "public" THEN root ELSE fromTrits(maskHash(toTrits(root)))

\* ------------------------------------------------------------------------
\* The channel in use: a caller holds one channel state, publishes messages
\* with it and hands what was published to the parser.

VARIABLES
    channelState,   \* the caller's channel state object, or NoChannel
    sent,           \* the messages published, oldest first, each with its text
    result          \* the last call, its arguments and its outcome, or NoResult

vars == <<channelState, sent, result>>

NoChannel == [provided |-> FALSE]
NoResult == [op |-> "none"]

\* The inputs given to the calls.
ShortSeed == <<"M", "A", "M">>
LongSeed == <<"M", "A", "M", "9", "S", "E", "E", "D", "9", "9">>
LowerSeed == <<"m", "a", "m", "9", "s", "e", "e", "d", "9">>
Seeds == {LeafSeed, ShortSeed, LongSeed, LowerSeed, Undefined}
Securities == 0..4
Modes == {"public", "private", "restricted", "secret"}
ShortKey == <<"K", "E", "Y">>
PaddedKey == <<"K", "E", "Y", "9", "9", "9", "9", "9", "9">>
LongKey == <<"K", "E", "Y", "K", "E", "Y", "K", "E", "Y", "K">>
LowerKey == <<"k", "e", "y">>
SideKeys == {Undefined, <<>>, ShortKey, PaddedKey, LongKey, LowerKey}
ShortMessage == <<"A", "B">>
LongMessage == <<"H", "E", "L", "L", "O", "9", "W", "O", "R", "L", "D">>
Messages == {ShortMessage, LongMessage}
BadMessages == {<<>>, <<"a", "b">>, <<"A", "1">>, Undefined}

Init ==
    /\ channelState = NoChannel
    /\ sent = <<>>
    /\ result = NoResult

\* What a call of createChannel leaves: the state it returns is the caller's.
Created(seed, security, mode, sideKey, outcome) ==
    /\ result' = [op |-> "createChannel", seed |-> seed, security |-> security,
                  mode |-> mode, sideKey |-> sideKey, outcome |-> outcome]
    /\ channelState' = IF outcome.threw THEN NoChannel ELSE outcome.state
    /\ UNCHANGED sent

\* channelState = createChannel(seed, security, mode, sideKey)
CreateChannel(seed, security, mode, sideKey) ==
    /\ channelState = NoChannel
    /\ result = NoResult
    /\ Created(seed, security, mode, sideKey, createChannel(seed, security, mode, sideKey))

\* What a call of createMessage leaves: the state object updated in place
\* and the message returned published (with its text, the number of zeros
\* its payload was padded with and the number start + index of the leaf whose
\* key signed it, for the statements about them).
Published(message, outcome) ==
    /\ result' = [op |-> "createMessage", message |-> message, before |-> channelState,
                  outcome |-> IF outcome.threw
                              THEN [threw |-> TRUE, error |-> outcome.error]
                              ELSE [threw |-> FALSE, message |-> outcome.message]]
    /\ channelState' = outcome.state
    /\ sent' = IF outcome.threw THEN sent
               ELSE Append(sent, [message |-> message,
                                 leaf |-> channelState.start + channelState.index,
                                 padding |-> outcome.padding,
                                 payload |-> outcome.message.payload,
                                 root |-> outcome.message.root,
                                 address |-> outcome.message.address])

\* createMessage(channelState, message)
CreateMessage(message) ==
    /\ channelState # NoChannel
    /\ result = NoResult
    /\ Len(sent) < MaxMessages
    /\ Published(message, createMessage(channelState, message))

\* channelRoot(channelState)
ChannelRoot ==
    /\ channelState # NoChannel
    /\ result = NoResult
    /\ result' = [op |-> "channelRoot", before |-> channelState,
                  outcome |-> channelRoot(channelState)]
    /\ UNCHANGED <<channelState, sent>>

\* parseMessage(payload, root, channelKey) of what is presented as message k.
Parse(k, payload, root, channelKey, changed, position) ==
    /\ result = NoResult
    /\ result' = [op |-> "parseMessage", k |-> k, payload |-> payload, root |-> root,
                  channelKey |-> channelKey, changed |-> changed, position |-> position,
                  outcome |-> parseMessage(payload, root, channelKey)]
    /\ UNCHANGED <<channelState, sent>>

\* A subscriber parses message k as it was published, with the channel's key.
ParseMessage(k) ==
    /\ k \in 1..Len(sent)
    /\ Parse(k, sent[k].payload, sent[k].root, channelState.sideKey, "nothing", 0)

\* A subscriber decodes the address of message k from its root.
DecodeAddress(k) ==
    /\ k \in 1..Len(sent)
    /\ result = NoResult
    /\ result' = [op |-> "decodeAddress", k |-> k,
                  outcome |-> decodeAddress(sent[k].root, channelState.mode)]
    /\ UNCHANGED <<channelState, sent>>

\* The caller is done with the outcome of the last call.
Return ==
    /\ result # NoResult
    /\ result' = NoResult
    /\ UNCHANGED <<channelState, sent>>

Next ==
    \/ \E seed \in Seeds, security \in Securities, mode \in Modes, sideKey \in SideKeys :
          CreateChannel(seed, security, mode, sideKey)
    \/ \E message \in Messages \cup BadMessages : CreateMessage(message)
    \/ ChannelRoot
    \/ \E k \in 1..MaxMessages : ParseMessage(k)
    \/ \E k \in 1..MaxMessages : DecodeAddress(k)
    \/ Return

Spec == Init /\ [][Next]_vars
\* ------------------------------------------------------------------------
\* The window of a channel.  The fields start, count, nextCount and index of
\* a channel state are the caller's to set: a caller does so on the state
\* createChannel returned, before it publishes.

SetWindow(start, count, nextCount, index) ==
    /\ channelState # NoChannel
    /\ result = NoResult
    /\ sent = <<>>
    /\ channelState' = [channelState EXCEPT !.start = start, !.count = count,
                                            !.nextCount = nextCount, !.index = index]
    /\ UNCHANGED <<sent, result>>

NextWindow ==
    \/ CreateChannel(LeafSeed, 1, "public", Undefined)
    \/ \E start \in -1..MaxStart, count \in 0..MaxCount, nextCount \in 0..MaxCount :
          \E index \in 0..(Max(count, 1) - 1) : SetWindow(start, count, nextCount, index)
    \/ CreateMessage(ShortMessage)
    \/ ChannelRoot
    \/ Return

SpecWindow == Init /\ [][NextWindow]_vars

\* ------------------------------------------------------------------------
\* What a subscriber is handed.  A message is published on a public channel
\* and one on a restricted channel whose window has two leaves; the parser
\* is given each as published, with one trit of its payload or of its root
\* changed, or with another side key.

Publications ==
    {[mode |-> "public", sideKey |-> Undefined, count |-> 1, message |-> LongMessage],
     [mode |-> "restricted", sideKey |-> ShortKey, count |-> 2, message |-> ShortMessage]}

ParseKeys ==
    {Undefined, ShortKey, PaddedKey, LongKey, LowerKey,
     <<"K", "E", "Y", "9">>, <<"K", "E">>, <<"K", "E", "X">>, <<"9">>,
     <<"K", "E", "Y", "9", "9", "9", "9", "9", "A">>}

\* The trytes of a text's trits with the trit at position (from 1) moved on
\* by 1 or 2 in the cycle -1, 0, 1.
ChangeTrit(trytes, position, by) ==
    LET trits == toTrits(trytes)
    IN  fromTrits([trits EXCEPT ![position] = ((trits[position] + 1 + by) % 3) - 1])

ParseChangedPayload(k, position, by) ==
    /\ k \in 1..Len(sent)
    /\ Parse(k, ChangeTrit(sent[k].payload, position, by), sent[k].root,
             channelState.sideKey, "payload", position)

ParseChangedRoot(k, position, by) ==
    /\ k \in 1..Len(sent)
    /\ Parse(k, sent[k].payload, ChangeTrit(sent[k].root, position, by),
             channelState.sideKey, "root", position)

ParseWithKey(k, channelKey) ==
    /\ k \in 1..Len(sent)
    /\ channelState.mode = "restricted"
    /\ Parse(k, sent[k].payload, sent[k].root, channelKey, "key", 0)

NextParse ==
    \/ \E p \in Publications : CreateChannel(LeafSeed, 1, p.mode, p.sideKey)
    \/ \E p \in Publications :
          /\ channelState # NoChannel
          /\ channelState.mode = p.mode
          /\ SetWindow(0, p.count, 1, 0)
    \/ \E p \in Publications :
          /\ channelState # NoChannel
          /\ channelState.mode = p.mode
          /\ channelState.count = p.count
          /\ sent = <<>>
          /\ CreateMessage(p.message)
    \/ \E k \in 1..Len(sent) : ParseMessage(k)
    \/ \E k \in 1..Len(sent), channelKey \in ParseKeys : ParseWithKey(k, channelKey)
    \/ \E k \in 1..Len(sent) :
          \E position \in 1..(3 * Len(sent[k].root)), by \in 1..2 :
             ParseChangedRoot(k, position, by)
    \/ \E k \in 1..Len(sent) :
          \E position \in 1..(3 * Len(sent[k].payload)), by \in 1..2 :
             ParseChangedPayload(k, position, by)
    \/ Return

SpecParse == Init /\ [][NextParse]_vars

\* ------------------------------------------------------------------------
\* C1: message round trip.  On a channel state returned by createChannel,
\* whatever tryte messages successive createMessage calls have published,
\* parseMessage of message k as published, with the state's side key, returns
\* (it does not throw), its message is the text published as message k, and
\* when a message k + 1 was published its nextRoot is that message's root.
C1_RoundTrip ==
    (result.op = "parseMessage" /\ result.changed = "nothing")
        => /\ ~result.outcome.threw
           /\ result.outcome.message = sent[result.k].message
           /\ result.k < Len(sent) => result.outcome.nextRoot = sent[result.k + 1].root

\* ------------------------------------------------------------------------
\* C2: tamper detection, as stated.  parseMessage throws for every message
\* createMessage produced once one trit is changed at any position of its
\* payload, its last trits included, or of its root.  (The siblings are
\* trits of the payload.)
C2_EveryTritDetected ==
    (result.op = "parseMessage" /\ result.changed \in {"payload", "root"})
        => result.outcome.threw

\* C2, amended: parseMessage throws once one trit is changed in the root, or
\* in the payload anywhere before the zeros createMessage appended to pad it
\* to whole trytes.
C2_TritBeforePaddingDetected ==
    (/\ result.op = "parseMessage"
     /\ \/ result.changed = "root"
        \/ /\ result.changed = "payload"
           /\ result.position <= (3 * Len(sent[result.k].payload)) - sent[result.k].padding)
        => result.outcome.threw

\* A trit of the last sibling of a message published from a window of two
\* leaves was changed, and parseMessage threw.
C2_Witness ==
    /\ result.op = "parseMessage"
    /\ result.changed = "payload"
    /\ channelState.count = 2
    /\ result.position > (3 * Len(sent[result.k].payload)) - sent[result.k].padding - HASH_LENGTH
    /\ result.position <= (3 * Len(sent[result.k].payload)) - sent[result.k].padding
    /\ result.outcome.threw

C4_Advance ==
    (result.op = "createMessage" /\ ~result.outcome.threw)
        => LET before == result.before
           IN  /\ IF before.index = before.count - 1
                  THEN /\ channelState.start = before.start + before.nextCount
                       /\ channelState.index = 0
                  ELSE /\ channelState.start = before.start
                       /\ channelState.index = before.index + 1
               /\ channelState.nextRoot =
                     fromTrits(MerkleTree(before.seed, before.start + before.count,
                                          before.nextCount, before.security).addressTrits)

\* createMessage returned on a window of two leaves at its first, with a next
\* window of one leaf: the index moved on and start stayed.
C4_Witness ==
    /\ result.op = "createMessage"
    /\ ~result.outcome.threw
    /\ result.before.count = 2 /\ result.before.nextCount = 1 /\ result.before.index = 0
    /\ result.before.start = 1
    /\ channelState.index = 1
    /\ channelState.start = 1

\* ------------------------------------------------------------------------
\* C5: channel-state invariant.  The state createChannel returns has
\* 0 <= index < count, count >= 1, nextCount >= 1 and start >= 0, and a
\* createMessage that returns on a state that has them leaves a state that
\* has them: so 0 <= index < count and start >= 0 after any number of
\* createMessage calls that return.
C5_Invariant ==
    LET Holds(state) ==
            /\ 0 <= state.index /\ state.index < state.count
            /\ state.count >= 1 /\ state.nextCount >= 1
            /\ state.start >= 0
    IN  /\ (result.op = "createChannel" /\ ~result.outcome.threw) => Holds(result.outcome.state)
        /\ (result.op = "createMessage" /\ ~result.outcome.threw /\ Holds(result.before))
              => Holds(channelState)

\* A second createMessage returned, on the last leaf of a window of two: the
\* state left the window.
C5_Witness ==
    /\ result.op = "createMessage"
    /\ ~result.outcome.threw
    /\ Len(sent) = 2
    /\ result.before.count = 2 /\ result.before.index = 1 /\ result.before.start >= 0
    /\ channelState.index = 0
    /\ channelState.start = result.before.start + result.before.nextCount

\* ------------------------------------------------------------------------
\* C6: initial state.  Every createChannel that returns, returns a state with
\* start 0, count 1, nextCount 1, index 0, the seed, security and mode given,
\* no nextRoot, and for its sideKey: in restricted mode the side key given
\* followed by '9's up to exactly the length of a hash in trytes, in the
\* other modes undefined.
C6_InitialState ==
    (result.op = "createChannel" /\ ~result.outcome.threw)
        => LET state == result.outcome.state
           IN  /\ state.start = 0 /\ state.count = 1 /\ state.nextCount = 1 /\ state.index = 0
               /\ state.seed = result.seed
               /\ state.security = result.security
               /\ state.mode = result.mode
               /\ state.nextRoot = Undefined
               /\ IF result.mode = "restricted"
                  THEN /\ Len(state.sideKey) = HASH_TRYTES
                       /\ \A i \in 1..HASH_TRYTES :
                             state.sideKey[i] = IF i <= Len(result.sideKey)
                                                THEN result.sideKey[i] ELSE "9"
                  ELSE state.sideKey = Undefined

\* createChannel has returned the state of a restricted channel whose side
\* key was given shorter than a hash.
C6_Witness ==
    /\ result.op = "createChannel"
    /\ ~result.outcome.threw
    /\ result.mode = "restricted"
    /\ result.sideKey = ShortKey
    /\ result.outcome.state.sideKey = PaddedKey

\* ------------------------------------------------------------------------
\* C7: createChannel validation.  createChannel throws, returning no state,
\* exactly when the seed is not a text of tryte characters of exactly the
\* length of a hash, or the security is outside 1..3, or the mode is none of
\* public, private and restricted, or the mode is restricted and the side key
\* is missing, is not trytes or is longer than a hash, or the mode is not
\* restricted and a side key is given.  A side key is a text of at least one
\* character: undefined and the empty text count as no side key.
C7_Validation ==
    result.op = "createChannel"
        => LET tryteChars(text) ==
                   /\ text # Undefined
                   /\ \A i \in 1..Len(text) : text[i] \in {ALPHABET[j] : j \in 1..Len(ALPHABET)}
               given == result.sideKey # Undefined /\ result.sideKey # <<>>
               rejected ==
                   \/ ~(tryteChars(result.seed) /\ Len(result.seed) = HASH_TRYTES)
                   \/ result.security \notin {1, 2, 3}
                   \/ result.mode \notin {"public", "private", "restricted"}
                   \/ /\ result.mode = "restricted"
                      /\ \/ ~given
                         \/ ~tryteChars(result.sideKey)
                         \/ Len(result.sideKey) > HASH_TRYTES
                   \/ result.mode # "restricted" /\ given
           IN  result.outcome.threw <=> rejected

\* createChannel has thrown for a side key given in public mode, every other
\* argument being valid.
C7_Witness ==
    /\ result.op = "createChannel"
    /\ result.seed = LeafSeed
    /\ result.security = 2
    /\ result.mode = "public"
    /\ result.sideKey = ShortKey
    /\ result.outcome.threw

\* ------------------------------------------------------------------------
\* C8: channel-state range validation.  channelRoot and createMessage, given
\* a channel state with start < 0 or count <= 0 (or nextCount <= 0, for
\* createMessage), throw the error of a check at their entry: they do not
\* start the Merkle construction (which does not end for no leaf) and leave
\* the state unchanged.
C8_RangeValidated ==
    (/\ result.op \in {"channelRoot", "createMessage"}
     /\ \/ result.before.start < 0
        \/ result.before.count <= 0
        \/ result.op = "createMessage" /\ result.before.nextCount <= 0)
        => /\ result.outcome.threw
           /\ result.outcome.error # RangeError.error
           /\ channelState = result.before

\* ------------------------------------------------------------------------
\* C9: createMessage is atomic on a rejected message.  When the message is
\* no tryte text (it is empty, or has a character outside 9A-Z), createMessage
\* throws the error of its first check and the channel state is, field for
\* field, what it was before the call.
C9_RejectedMessage ==
    (result.op = "createMessage" /\ result.message \in BadMessages)
        => /\ result.outcome.threw
           /\ result.outcome.error = "The message must be in trytes"
           /\ channelState = result.before

\* createMessage has thrown for the empty message.
C9_Witness ==
    /\ result.op = "createMessage"
    /\ result.message = <<>>
    /\ result.outcome.threw
    /\ channelState = result.before

\* ------------------------------------------------------------------------
\* C10: address derivation.  The address of every message createMessage
\* returns is its root in public mode and the trytes of maskHash of the
\* root's trits in the private and restricted modes; and decodeAddress of a
\* published message's root, with the channel's mode, is that message's
\* address.
C10_Address ==
    /\ (result.op = "createMessage" /\ ~result.outcome.threw)
          => result.outcome.message.address =
                IF result.before.mode = "public" THEN result.outcome.message.root
                ELSE fromTrits(maskHash(toTrits(result.outcome.message.root)))
    /\ result.op = "decodeAddress" => result.outcome = sent[result.k].address

\* decodeAddress has given the address of a message published in private
\* mode, which is not its root.
C10_Witness ==
    /\ result.op = "decodeAddress"
    /\ channelState.mode = "private"
    /\ result.outcome = sent[result.k].address
    /\ result.outcome # sent[result.k].root

\* ------------------------------------------------------------------------
\* C11: root of a message.  For every channel state whose start is not
\* negative, whose count is positive and whose security is 1, 2 or 3, the root
\* of the message createMessage returns is what channelRoot returns for the
\* state as it was before the call; channelRoot returns for such a state a
\* string of HASH_TRYTES trytes, the same whenever it is asked for the same
\* state, and leaves the state as it was.
ValidState(s) ==
    /\ s.start >= 0
    /\ s.count > 0
    /\ s.security \in 1..3

C11_RootOfMessage ==
    /\ (result.op = "createMessage" /\ ~result.outcome.threw /\ ValidState(result.before))
          => channelRoot(result.before) =
                [threw |-> FALSE, root |-> result.outcome.message.root]
    /\ (result.op = "channelRoot" /\ ValidState(result.before))
          => /\ ~result.outcome.threw
             /\ Len(result.outcome.root) = HASH_TRYTES
             /\ isTrytes(result.outcome.root)
             /\ result.outcome = channelRoot(channelState)
             /\ channelState = result.before

\* createMessage has returned a message for a window of two leaves that
\* starts at leaf 1, and its root is not the root of the window after.
C11_Witness ==
    /\ result.op = "createMessage"
    /\ ~result.outcome.threw
    /\ result.before.start = 1
    /\ result.before.count = 2
    /\ result.before.nextCount = 2
    /\ channelRoot(channelState).threw = FALSE
    /\ channelRoot(channelState).root # result.outcome.message.root

\* ------------------------------------------------------------------------
\* The Merkle tree by itself.  A tree is built over a window of the leaves of
\* LeafSeed, the subtree of one of its leaves is taken, and the root is
\* recalculated from the leaf's address and the subtree's leaves, as the
\* parser does with the siblings of a message.

MaxTreeCount == 4

TreeWindows ==
    {w \in [start : 0..WindowLeaf, count : 1..MaxTreeCount, security : 1..3] :
        w.start + w.count - 1 <= (IF w.security = 1 THEN WindowLeaf ELSE ChannelLeaf)}

\* tree = new MerkleTree(seed, start, count, security)
NewMerkleTree(w) ==
    /\ result = NoResult
    /\ result' = [op |-> "MerkleTree", window |-> w,
                  root |-> MerkleTree(LeafSeed, w.start, w.count, w.security).addressTrits]
    /\ UNCHANGED <<channelState, sent>>

\* subtree = tree.getSubtree(index), for a leaf of the tree
GetSubtree(index) ==
    /\ result.op = "MerkleTree"
    /\ index \in 0..(result.window.count - 1)
    /\ LET w == result.window
           subtree == getSubtree(MerkleTree(LeafSeed, w.start, w.count, w.security), index)
       IN  result' = [op |-> "getSubtree", window |-> w, root |-> result.root, index |-> index,
                      address |-> leafAddress(LeafSeed, w.start + index, w.security).address,
                      key |-> subtree.key,
                      siblings |-> concatenate([l \in 1..Len(subtree.leaves) |->
                                                   subtree.leaves[l].addressTrits])]
    /\ UNCHANGED <<channelState, sent>>

\* MerkleTree.root(address of the leaf, siblings, index)
RecalculateRoot ==
    /\ result.op = "getSubtree"
    /\ result' = [op |-> "MerkleTree.root", window |-> result.window, root |-> result.root,
                  index |-> result.index, siblings |-> result.siblings,
                  outcome |-> MerkleTreeRoot(result.address, result.siblings, result.index)]
    /\ UNCHANGED <<channelState, sent>>

NextMerkle ==
    \/ \E w \in TreeWindows : NewMerkleTree(w)
    \/ \E index \in 0..(MaxTreeCount - 1) : GetSubtree(index)
    \/ RecalculateRoot
    \/ Return

SpecMerkle == Init /\ [][NextMerkle]_vars

\* ------------------------------------------------------------------------
\* C12: Merkle round trip.  For every tree of one leaf or more and every leaf
\* of it, MerkleTree.root of the leaf's address, the address trits of the
\* leaves of the leaf's subtree and the leaf's index is the address of the
\* tree's root.
C12_RoundTrip ==
    result.op = "MerkleTree.root" => result.outcome = result.root

\* The same of the trees of two and of four leaves.
C12_RoundTripOfFullTree ==
    (result.op = "MerkleTree.root" /\ result.window.count \in {2, 4})
        => result.outcome = result.root

\* The root recalculated for the last leaf of a tree of three leaves is not
\* the tree's root, and the one recalculated for a tree of one leaf is the
\* rate of a sponge that absorbed nothing.
C12_OddTree ==
    (result.op = "MerkleTree.root" /\ result.window.count = 3)
        => (result.outcome = result.root <=> result.index < 2)

C12_SingleLeaf ==
    (result.op = "MerkleTree.root" /\ result.window.count = 1)
        => (result.outcome = Zeros(HASH_LENGTH) /\ result.siblings = <<>>)

\* ------------------------------------------------------------------------
\* The signature scheme by itself.  A private key is made from a subseed for
\* a security level, a hash is signed with it, and the digest is recovered
\* from the hash and the signature.

Subseeds ==
    {Zeros(HASH_LENGTH),
     [i \in 1..HASH_LENGTH |-> 1],
     toTrits(LeafSeed),
     toTrits(<<"S", "U", "B", "S", "E", "E", "D", "9", "Z">>)}

\* Hashes whose trytes have the values 0, 13 and -13 and values between.
SignedHashes ==
    {Zeros(HASH_LENGTH),
     [i \in 1..HASH_LENGTH |-> 1],
     [i \in 1..HASH_LENGTH |-> -1],
     [i \in 1..HASH_LENGTH |-> ((i * i + (i \div 3)) % 3) - 1],
     toTrits(<<"H", "A", "S", "H", "9", "M", "N", "Z", "A">>),
     toTrits(LeafSeed)}

\* key = privateKeyFromSubseed(subSeed, securityLevel)
PrivateKeyFromSubseed(subSeed, securityLevel) ==
    /\ result = NoResult
    /\ result' = [op |-> "privateKeyFromSubseed", subSeed |-> subSeed,
                  securityLevel |-> securityLevel,
                  key |-> privateKeyFromSubseed(subSeed, securityLevel)]
    /\ UNCHANGED <<channelState, sent>>

\* sig = signature(hash, key)
Signature(hash) ==
    /\ result.op = "privateKeyFromSubseed"
    /\ result' = [op |-> "signature", subSeed |-> result.subSeed,
                  securityLevel |-> result.securityLevel, hash |-> hash,
                  sig |-> signature(hash, result.key)]
    /\ UNCHANGED <<channelState, sent>>

\* digestFromSignature(hash, sig)
DigestFromSignature ==
    /\ result.op = "signature"
    /\ result' = [op |-> "digestFromSignature", subSeed |-> result.subSeed,
                  securityLevel |-> result.securityLevel, hash |-> result.hash,
                  sig |-> result.sig,
                  outcome |-> digestFromSignature(result.hash, result.sig)]
    /\ UNCHANGED <<channelState, sent>>

NextSignature ==
    \/ \E subSeed \in Subseeds, securityLevel \in 1..3 :
          PrivateKeyFromSubseed(subSeed, securityLevel)
    \/ \E hash \in SignedHashes : Signature(hash)
    \/ DigestFromSignature
    \/ Return

SpecSignature == Init /\ [][NextSignature]_vars

\* ------------------------------------------------------------------------
\* C13: signature round trip.  For every security level 1, 2 or 3, every
\* subseed and every hash, digestFromSignature of the hash and of the
\* signature made of the hash with privateKeyFromSubseed of the subseed and
\* the level is digestFromSubseed of the subseed and the level; the signature
\* has a fragment of HASH_LENGTH trits for every fragment of the key.
C13_RoundTrip ==
    result.op = "digestFromSignature"
        => /\ result.outcome = digestFromSubseed(result.subSeed, result.securityLevel)
           /\ Len(result.sig) = result.securityLevel * PRIVATE_KEY_FRAGMENT_LENGTH

\* The digest has been recovered from a signature of security level 3 made
\* of a hash whose trytes are neither all 13 nor all -13.
C13_Witness ==
    /\ result.op = "digestFromSignature"
    /\ result.securityLevel = 3
    /\ \E i \in 0..((3 * PRIVATE_KEY_NUM_FRAGMENTS) - 1) :
          TryteValue(result.hash, i) \notin {MIN_TRYTE_VALUE, 0, MAX_TRYTE_VALUE}
    /\ result.outcome = digestFromSubseed(result.subSeed, 3)

\* ------------------------------------------------------------------------
\* The pascal codec by itself.  A value is encoded and the trits are decoded;
\* the decoder and the parser are also given every short input.

MaxValue == 400
MaxInput == 6

EncodedValues == (0 - MaxValue)..MaxValue
DecodedInputs == UNION {[1..n -> {-1, 0, 1}] : n \in 0..MaxInput}

\* trits = pascalEncode(value)
PascalEncode(value) ==
    /\ result = NoResult
    /\ result' = [op |-> "pascalEncode", value |-> value, outcome |-> pascalEncode(value)]
    /\ UNCHANGED <<channelState, sent>>

\* pascalDecode(trits) of the trits pascalEncode has returned
PascalDecode ==
    /\ result.op = "pascalEncode"
    /\ ~result.outcome.threw
    /\ result' = [op |-> "pascalDecode", from |-> "pascalEncode", value |-> result.value,
                  input |-> result.outcome.trits,
                  outcome |-> pascalDecode(result.outcome.trits)]
    /\ UNCHANGED <<channelState, sent>>

\* pascalDecode(input) of trits received
PascalDecodeInput(input) ==
    /\ result = NoResult
    /\ result' = [op |-> "pascalDecode", from |-> "input", value |-> 0, input |-> input,
                  outcome |-> pascalDecode(input)]
    /\ UNCHANGED <<channelState, sent>>

\* parseMessage(payload, root, undefined) of a payload received that is short
ParseInput(input) ==
    /\ Len(input) % TRITS_PER_TRYTE = 0
    /\ Parse(0, fromTrits(input), Nines(HASH_TRYTES), Undefined, "payload", 0)

NextPascal ==
    \/ \E value \in EncodedValues : PascalEncode(value)
    \/ PascalDecode
    \/ \E input \in DecodedInputs : PascalDecodeInput(input)
    \/ \E input \in DecodedInputs : ParseInput(input)
    \/ Return

SpecPascal == Init /\ [][NextPascal]_vars

\* The trits of |value| rounded up to a multiple of 3.
TritCount(value) == roundThird(minTrits(Abs(value), 1))

\* ------------------------------------------------------------------------
\* C14: pascal round trip.  For every value from -MaxValue to MaxValue,
\* the negative ones included, pascalEncode returns trits, m + m / 3 of them
\* with m the number of trits of the value rounded up to a multiple of 3, and
\* pascalDecode of them returns the value and their number as the end;
\* pascalEncode(0) is 1, 0, 0, -1 and pascalDecode(pascalEncode(-243)) is the
\* value -243 with the end 8.
C14_RoundTrip ==
    /\ result.op = "pascalEncode"
          => /\ ~result.outcome.threw
             /\ result.value # 0
                   => Len(result.outcome.trits) =
                         TritCount(result.value) + (TritCount(result.value) \div 3)
             /\ result.value = 0 => result.outcome.trits = <<1, 0, 0, -1>>
    /\ (result.op = "pascalDecode" /\ result.from = "pascalEncode")
          => result.outcome =
                [threw |-> FALSE, value |-> result.value, end |-> Len(result.input)]

\* The same of the values that are not negative, and what pascalEncode does
\* with a negative one: writeTrits calls itself until the stack is exhausted.
C14_RoundTripOfNatural ==
    /\ (result.op = "pascalEncode" /\ result.value >= 0)
          => /\ ~result.outcome.threw
             /\ result.value # 0
                   => Len(result.outcome.trits) =
                         TritCount(result.value) + (TritCount(result.value) \div 3)
             /\ result.value = 0 => result.outcome.trits = <<1, 0, 0, -1>>
    /\ (result.op = "pascalEncode" /\ result.value < 0) => result.outcome = RangeError
    /\ (result.op = "pascalDecode" /\ result.from = "pascalEncode")
          => result.outcome =
                [threw |-> FALSE, value |-> result.value, end |-> Len(result.input)]

\* ------------------------------------------------------------------------
\* C15: malformed pascal input.  Whenever decoding would consume more trits
\* than the input holds (no tryte of the input has a positive value, or the
\* trytes up to the first one that has and a trit for each of them are more
\* than the input), pascalDecode throws and returns no value, and so does
\* parseMessage of a payload that begins with such an input.
Malformed(input) ==
    /\ ~(Len(input) >= Len(ZERO) /\ SubSeq(input, 1, 4) = ZERO)
    /\ \/ end(input) < 0
       \/ end(input) + (end(input) \div TRITS_PER_TRYTE) > Len(input)

C15_MalformedRejected ==
    /\ (result.op = "pascalDecode" /\ Malformed(result.input))
          => result.outcome.threw
    /\ (result.op = "parseMessage" /\ Malformed(toTrits(result.payload)))
          => result.outcome.threw

\* What pascalDecode does with such an input: without a tryte of positive
\* value it exhausts the stack, and with one it returns a value and an end
\* past the input's.
C15_MalformedOutcome ==
    (result.op = "pascalDecode" /\ Malformed(result.input))
        => IF end(result.input) < 0 THEN result.outcome = RangeError
           ELSE /\ ~result.outcome.threw
                /\ result.outcome.end > Len(result.input)

\* ------------------------------------------------------------------------
\* The mask by itself.  A payload is masked with a copy of a sponge and what
\* comes out is unmasked with another copy of it.

MaxChunks == 2

\* Lengths at, next to and between the multiples of HASH_LENGTH.
MaskedLengths ==
    {n \in 0..((MaxChunks * HASH_LENGTH) + (HASH_LENGTH \div 2)) :
        (n % HASH_LENGTH) \in {0, 1, HASH_LENGTH \div 2, HASH_LENGTH - 1}}

MaskedPayloads ==
    {[i \in 1..n |-> ((i * i) % 3) - 1] : n \in MaskedLengths}
        \cup {[i \in 1..n |-> ((i + (i \div 4)) % 3) - 1] : n \in MaskedLengths}

\* A new sponge, sponges that have absorbed, and a sponge of 81 rounds.
MaskSponges ==
    {Curl(27),
     absorb(Curl(27), toTrits(LeafSeed), 0, HASH_LENGTH),
     absorb(absorb(Curl(27), toTrits(PaddedKey), 0, HASH_LENGTH),
            toTrits(LeafSeed), 0, HASH_LENGTH),
     absorb(Curl(81), toTrits(LeafSeed), 0, HASH_LENGTH)}

\* mask(payload, sponge) with a copy of the sponge
Mask(payload, sponge) ==
    /\ result = NoResult
    /\ result' = [op |-> "mask", payload |-> payload, sponge |-> sponge,
                  outcome |-> mask(payload, sponge)]
    /\ UNCHANGED <<channelState, sent>>

\* unmask(masked, sponge) with another copy of the sponge
Unmask ==
    /\ result.op = "mask"
    /\ result' = [op |-> "unmask", payload |-> result.payload, sponge |-> result.sponge,
                  masked |-> result.outcome,
                  outcome |-> unmask(result.outcome.payload, result.sponge)]
    /\ UNCHANGED <<channelState, sent>>

NextMask ==
    \/ \E payload \in MaskedPayloads, sponge \in MaskSponges : Mask(payload, sponge)
    \/ Unmask
    \/ Return

SpecMask == Init /\ [][NextMask]_vars

\* ------------------------------------------------------------------------
\* C16: mask round trip.  For every payload, whatever its length, and every
\* sponge, unmask with a copy of the sponge of what mask returned with another
\* copy of it is the payload, and the two copies are left in the same state.
C16_RoundTrip ==
    result.op = "unmask"
        => /\ result.outcome.payload = result.payload
           /\ result.outcome.sponge = result.masked.sponge

\* A payload of more than a chunk whose length is no multiple of HASH_LENGTH
\* has been masked, which changed it and the sponge, and unmasked.
C16_Witness ==
    /\ result.op = "unmask"
    /\ Len(result.payload) > HASH_LENGTH
    /\ Len(result.payload) % HASH_LENGTH # 0
    /\ result.masked.payload # result.payload
    /\ result.masked.sponge # result.sponge
    /\ result.outcome.payload = result.payload
    /\ result.outcome.sponge = result.masked.sponge

\* ------------------------------------------------------------------------
\* The nonce search by itself.  A nonce is searched for the state of a sponge
\* and a security level, and the sponge absorbs the nonce found, as the
\* sponge of createMessage does when the nonce is masked.

MaxSearched == 20

\* The states of sponges that have absorbed the trits of 1 .. MaxSearched.
SearchedStates ==
    {absorb(Curl(27), writeTrits(k, Zeros(HASH_LENGTH), 0), 0, HASH_LENGTH).state :
        k \in 1..MaxSearched}

\* nonce = new HammingDiver().search(sponge.rate(STATE_LENGTH), security,
\* HASH_LENGTH / 3, 0)
Search(state, security) ==
    /\ result = NoResult
    /\ result' = [op |-> "search", state |-> state, security |-> security,
                  nonce |-> search(state, security, HASH_LENGTH \div 3, 0)]
    /\ UNCHANGED <<channelState, sent>>

\* The nonce is written over the first trits of the state and the state is
\* transformed: sponge.absorb(nonce, 0, nonce.length).
AbsorbNonce ==
    /\ result.op = "search"
    /\ result' = [op |-> "absorbNonce", state |-> result.state, security |-> result.security,
                  nonce |-> result.nonce,
                  outcome |-> rate(absorb([rounds |-> 27, state |-> result.state],
                                          result.nonce, 0, Len(result.nonce)), HASH_LENGTH)]
    /\ UNCHANGED <<channelState, sent>>

NextSearch ==
    \/ \E state \in SearchedStates, security \in 1..3 : Search(state, security)
    \/ AbsorbNonce
    \/ Return

SpecSearch == Init /\ [][NextSearch]_vars

\* ------------------------------------------------------------------------
\* C17: proof of work.  Whenever search has returned a nonce for a state and
\* a security level, the rate of the sponge of that state after the nonce is
\* written over its first trits and it is transformed once has a
\* checksumSecurity that is not 0 and not less than the security level.
C17_Postcondition ==
    result.op = "absorbNonce"
        => /\ checksumSecurity(result.outcome) # 0
           /\ checksumSecurity(result.outcome) >= result.security

\* A nonce found for security level 3 has been absorbed: the trits of the
\* rate sum to 0, and those of its first third and of its first two thirds
\* do not.
C17_Witness ==
    /\ result.op = "absorbNonce"
    /\ result.security = 3
    /\ Len(result.nonce) >= HASH_LENGTH \div 3
    /\ SumOf(result.outcome) = 0
    /\ SumOf(Slice(result.outcome, 0, HASH_LENGTH \div 3)) # 0
    /\ SumOf(Slice(result.outcome, 0, (2 * HASH_LENGTH) \div 3)) # 0

\* ------------------------------------------------------------------------
\* C20: frame of createMessage.  A call of createMessage leaves the seed, the
\* mode, the sideKey, the security, the count and the nextCount of the channel
\* state as they were, whether it returns or throws; and a channel state that
\* createChannel returned and only createMessage has changed has count 1,
\* nextCount 1 and index 0, and for its start the number of messages
\* published.
C20_Frame ==
    /\ result.op = "createMessage"
          => /\ channelState.seed = result.before.seed
             /\ channelState.mode = result.before.mode
             /\ channelState.sideKey = result.before.sideKey
             /\ channelState.security = result.before.security
             /\ channelState.count = result.before.count
             /\ channelState.nextCount = result.before.nextCount
    /\ channelState # NoChannel
          => /\ channelState.count = 1
             /\ channelState.nextCount = 1
             /\ channelState.index = 0
             /\ channelState.start = Len(sent)

\* Two messages have been published on a restricted channel: createMessage
\* has written the start and the nextRoot of its state.
C20_Witness ==
    /\ result.op = "createMessage"
    /\ ~result.outcome.threw
    /\ Len(sent) = 2
    /\ channelState.mode = "restricted"
    /\ channelState.start = 2
    /\ channelState.start # result.before.start
    /\ channelState.nextRoot # result.before.nextRoot

\* ------------------------------------------------------------------------
\* client
\*
\* A message of the tangle is kept as what the client reads of it: whether
\* client.message gave one, the type of its payload (0 without a payload) and
\* the bytes of its data, the first byte as a number and the rest as the
\* characters they are the ASCII codes of.

\* client.message(messageId) gave nothing.
NoMessage == [found |-> FALSE, type |-> 0, first |-> 0, rest |-> <<>>]

\* The smallest data decodeMessages looks at is longer than 100 bytes, which
\* is less than any payload made with hashes of 243 trits; with hashes of
\* HASH_LENGTH trits it is as many bytes less.
DATA_MIN == (100 * HASH_LENGTH) \div 243

\* mamAttach(client, mamMessage, tag): the message it submits.
mamAttach(mamMessage, tag) ==
    [found |-> TRUE, type |-> 2,
     first |-> IF Falsy(tag) THEN 0 ELSE Len(tag),
     rest |-> (IF Falsy(tag) THEN <<>> ELSE tag) \o mamMessage.payload]

\* What decodeMessages returns: undefined, or the message decoded.
NotDecoded == [threw |-> FALSE, decoded |-> FALSE]

\* The loop of decodeMessages from message i.
RECURSIVE DecodeFrom(_, _, _, _)
DecodeFrom(messages, i, root, sideKey) ==
    IF i > Len(messages) THEN NotDecoded
    ELSE LET message == messages[i]
             tagLength == message.first
             tag == Slice(message.rest, 0, tagLength)
             msg == Slice(message.rest, tagLength, Len(message.rest))
             parsed == parseMessage(msg, root, sideKey)
         IN  IF message.type = 2 /\ 1 + Len(message.rest) > DATA_MIN
             THEN IF tagLength = 0 \/ tagLength > 27 THEN NotDecoded
                  ELSE IF ~parsed.threw
                       THEN [threw |-> FALSE, decoded |-> TRUE, root |-> root,
                             nextRoot |-> parsed.nextRoot, message |-> parsed.message,
                             tag |-> tag]
                       ELSE DecodeFrom(messages, i + 1, root, sideKey)
             ELSE DecodeFrom(messages, i + 1, root, sideKey)

\* decodeMessages(messages, root, sideKey)
decodeMessages(messages, root, sideKey) ==
    IF Len(messages) = 0 THEN NotDecoded ELSE DecodeFrom(messages, 1, root, sideKey)

\* A client is what it has for every address: the messages client.message
\* gives for the ids client.messagesFind gives.
messagesFind(client, messageAddress) ==
    IF \E entry \in client : entry.address = messageAddress
    THEN (CHOOSE entry \in client : entry.address = messageAddress).messages
    ELSE <<>>

\* mamFetch(client, root, mode, sideKey), every call of the client returning.
mamFetch(client, root, mode, sideKey) ==
    LET found == messagesFind(client, decodeAddress(root, mode))
        messages == SelectSeq(found, LAMBDA message : message.found)
    IN  IF validateModeKey(mode, sideKey) # "returns" THEN Thrown(validateModeKey(mode, sideKey))
        ELSE decodeMessages(messages, root, sideKey)

\* The do-while loop of mamFetchAll: the messages retrieved, and beside them
\* the number of messages there were at every call of mamFetch.  FetchNext is
\* the body of the loop after its call of mamFetch has given fetched.
RECURSIVE FetchLoop(_, _, _, _, _, _, _)
FetchNext(client, mode, sideKey, localLimit, messages, called, fetched) ==
    IF fetched.threw THEN fetched
    ELSE IF fetched.decoded
    THEN IF ~Falsy(fetched.nextRoot) /\ Len(messages) + 1 < localLimit
         THEN FetchLoop(client, fetched.nextRoot, mode, sideKey, localLimit,
                        Append(messages, fetched), called)
         ELSE [threw |-> FALSE, messages |-> Append(messages, fetched), fetches |-> called]
    ELSE [threw |-> FALSE, messages |-> messages, fetches |-> called]

FetchLoop(client, fetchRoot, mode, sideKey, localLimit, messages, fetches) ==
    FetchNext(client, mode, sideKey, localLimit, messages, Append(fetches, Len(messages)),
              mamFetch(client, fetchRoot, mode, sideKey))

\* mamFetchAll(client, root, mode, sideKey, limit) of a limit that is given:
\* localLimit is limit.
mamFetchAll(client, root, mode, sideKey, limit) ==
    IF validateModeKey(mode, sideKey) # "returns" THEN Thrown(validateModeKey(mode, sideKey))
    ELSE FetchLoop(client, root, mode, sideKey, limit, <<>>, <<>>)

\* ------------------------------------------------------------------------
\* A subscriber with a client.  Messages are published on a channel; the
\* tangle has, at the address of each, what some node was given: nothing, the
\* message attached with or without a tag, messages that are no MAM messages
\* of the channel, or several of these.

MaxLimit == 3

FetchTag == <<"T", "A", "G">>
LongTag == [i \in 1..28 |-> "T"]

FetchChannels ==
    {[mode |-> "public", sideKey |-> Undefined],
     [mode |-> "restricted", sideKey |-> ShortKey]}

\* A message whose data is the payload of message k with its first trit
\* changed, attached with a tag; a message with no indexation payload; and
\* one whose data is too short.
Forged(k) == mamAttach([payload |-> ChangeTrit(sent[k].payload, 1, 1)], FetchTag)
Transaction == [found |-> TRUE, type |-> 0, first |-> 0, rest |-> <<>>]
ShortData == [found |-> TRUE, type |-> 2, first |-> 1, rest |-> <<"T", "A">>]

FoundKinds ==
    {"nothing", "missing", "tagged", "untagged", "transaction", "short", "forged",
     "forged, tagged", "untagged, tagged", "tagged long", "transaction, short, tagged",
     "tagged long, tagged"}

FoundAt(k, kind) ==
    CASE kind = "nothing" -> <<>>
      [] kind = "missing" -> <<NoMessage>>
      [] kind = "tagged" -> <<mamAttach(sent[k], FetchTag)>>
      [] kind = "untagged" -> <<mamAttach(sent[k], Undefined)>>
      [] kind = "transaction" -> <<Transaction>>
      [] kind = "short" -> <<ShortData>>
      [] kind = "forged" -> <<Forged(k)>>
      [] kind = "forged, tagged" -> <<Forged(k), mamAttach(sent[k], FetchTag)>>
      [] kind = "untagged, tagged" -> <<mamAttach(sent[k], Undefined), mamAttach(sent[k], FetchTag)>>
      [] kind = "tagged long" -> <<mamAttach(sent[k], LongTag)>>
      [] kind = "transaction, short, tagged" ->
            <<Transaction, ShortData, mamAttach(sent[k], FetchTag)>>
      [] kind = "tagged long, tagged" ->
            <<mamAttach(sent[k], LongTag), mamAttach(sent[k], FetchTag)>>

\* The client of a tangle that has, at the address of message k, the
\* messages of kinds[k].
ClientOf(kinds) ==
    {[address |-> sent[k].address, messages |-> FoundAt(k, kinds[k])] : k \in 1..Len(sent)}

\* mamFetch(client, root of message k, mode, sideKey)
MamFetch(k, kind, sideKey) ==
    /\ k \in 1..Len(sent)
    /\ result = NoResult
    /\ result' = [op |-> "mamFetch", k |-> k, kind |-> kind, sideKey |-> sideKey,
                  messages |-> FoundAt(k, kind),
                  outcome |-> mamFetch(ClientOf([j \in 1..Len(sent) |->
                                                    IF j = k THEN kind ELSE "nothing"]),
                                       sent[k].root, channelState.mode, sideKey)]
    /\ UNCHANGED <<channelState, sent>>

\* mamFetchAll(client, root of the first message, mode, sideKey, limit)
MamFetchAll(kinds, limit) ==
    /\ Len(sent) = MaxMessages
    /\ result = NoResult
    /\ result' = [op |-> "mamFetchAll", kinds |-> kinds, limit |-> limit,
                  outcome |-> mamFetchAll(ClientOf(kinds), sent[1].root, channelState.mode,
                                          channelState.sideKey, limit)]
    /\ UNCHANGED <<channelState, sent>>

NextFetch ==
    \/ \E c \in FetchChannels : CreateChannel(LeafSeed, 1, c.mode, c.sideKey)
    \/ CreateMessage(ShortMessage)
    \/ \E k \in 1..Len(sent), kind \in FoundKinds :
          \E sideKey \in {channelState.sideKey, Undefined, ShortKey} :
             MamFetch(k, kind, sideKey)
    \/ \E kinds \in [1..MaxMessages -> {"nothing", "tagged", "untagged", "forged",
                                        "forged, tagged"}], limit \in 0..MaxLimit :
          MamFetchAll(kinds, limit)
    \/ Return

SpecFetch == Init /\ [][NextFetch]_vars

\* ------------------------------------------------------------------------
\* C18: the limit of mamFetchAll.  mamFetchAll with a limit of n, 0 or more,
\* returns n messages at most, and calls mamFetch only while it has fewer
\* than n messages.
C18_Limit ==
    (result.op = "mamFetchAll" /\ ~result.outcome.threw)
        => /\ Len(result.outcome.messages) <= result.limit
           /\ \A i \in 1..Len(result.outcome.fetches) :
                 result.outcome.fetches[i] < result.limit

\* The same of a limit of 1 or more; with a limit of 0 mamFetchAll calls
\* mamFetch once and returns the message it decodes.
C18_PositiveLimit ==
    (result.op = "mamFetchAll" /\ ~result.outcome.threw)
        => IF result.limit >= 1
           THEN /\ Len(result.outcome.messages) <= result.limit
                /\ \A i \in 1..Len(result.outcome.fetches) :
                      result.outcome.fetches[i] < result.limit
           ELSE /\ Len(result.outcome.fetches) = 1
                /\ Len(result.outcome.messages) = 1
                      <=> result.kinds[1] \in {"tagged", "forged, tagged"}

\* ------------------------------------------------------------------------
\* C19: the outcome of mamFetch.  With a mode and a side key that pass
\* validateModeKey, mamFetch returns the message decoded and its nextRoot
\* when a message found at the address decodes, returns undefined only when
\* no message is found at the address, and throws when messages are found
\* and none decodes.
Decodes(message, root, sideKey) ==
    /\ message.found
    /\ message.type = 2
    /\ 1 + Len(message.rest) > DATA_MIN
    /\ message.first > 0 /\ message.first <= 27
    /\ ~parseMessage(Slice(message.rest, message.first, Len(message.rest)), root, sideKey).threw

C19_Outcome ==
    (result.op = "mamFetch" /\ validateModeKey(channelState.mode, result.sideKey) = "returns")
        => LET messages == SelectSeq(result.messages, LAMBDA message : message.found)
               decoding == \E i \in 1..Len(messages) :
                              Decodes(messages[i], sent[result.k].root, result.sideKey)
           IN  IF decoding
               THEN /\ ~result.outcome.threw
                    /\ result.outcome.decoded
                    /\ result.outcome.message = sent[result.k].message
                    /\ result.outcome.nextRoot =
                          IF result.k < Len(sent) THEN sent[result.k + 1].root
                          ELSE channelState.nextRoot
               ELSE IF Len(messages) = 0
               THEN result.outcome = NotDecoded
               ELSE result.outcome.threw

\* What mamFetch does: it returns the first message found that decodes, if
\* no message of an indexation payload and data long enough before it has a
\* tag of no length, and undefined otherwise, whatever was found.
C19_NeverThrows ==
    (result.op = "mamFetch" /\ validateModeKey(channelState.mode, result.sideKey) = "returns")
        => /\ ~result.outcome.threw
           /\ result.outcome.decoded
                 <=> result.kind \in {"tagged", "forged, tagged", "transaction, short, tagged"}
           /\ result.outcome.decoded
                 => /\ result.outcome.message = sent[result.k].message
                    /\ result.outcome.tag = FetchTag
                    /\ result.outcome.root = sent[result.k].root
                    /\ result.outcome.nextRoot =
                          IF result.k < Len(sent) THEN sent[result.k + 1].root
                          ELSE channelState.nextRoot

\* ------------------------------------------------------------------------
\* C21: the result of MerkleTree.root.  RateAfter is the value of the
\* variable rate after the sibling steps from step c: at step c the rate and
\* chunk c of the siblings are hashed, the rate first when bit c of the index
\* is 0 and the chunk first when it is 1; after no step it is the rate given.
RECURSIVE RateAfter(_, _, _, _)
RateAfter(rate0, siblings, index, c) ==
    IF c * HASH_LENGTH >= Len(siblings) THEN rate0
    ELSE LET chunk == Slice(siblings, c * HASH_LENGTH, (c + 1) * HASH_LENGTH)
             hashed == IF (index \div (2 ^ c)) % 2 = 0
                       THEN rate(absorb(absorb(Curl(27), rate0, 0, Len(rate0)),
                                        chunk, 0, Len(chunk)), HASH_LENGTH)
                       ELSE rate(absorb(absorb(Curl(27), chunk, 0, Len(chunk)),
                                        rate0, 0, Len(rate0)), HASH_LENGTH)
         IN  RateAfter(hashed, siblings, index, c + 1)

\* The address MerkleTree.root was called with.
RootInput ==
    leafAddress(LeafSeed, result.window.start + result.index, result.window.security).address

\* C21: MerkleTree.root(rate, siblings, index) returns the value of rate
\* after the last sibling step, and with no siblings the rate it was given.
C21_FinalRate ==
    result.op = "MerkleTree.root"
        => result.outcome = RateAfter(RootInput, result.siblings, result.index, 0)

\* With one sibling or more it does; with none it returns the rate of a
\* sponge that absorbed nothing, which is not the rate it was given.
C21_SpongeRate ==
    result.op = "MerkleTree.root"
        => IF result.siblings # <<>>
           THEN result.outcome = RateAfter(RootInput, result.siblings, result.index, 0)
           ELSE /\ result.outcome = Zeros(HASH_LENGTH)
                /\ result.outcome # RootInput
                /\ RateAfter(RootInput, result.siblings, result.index, 0) = RootInput

\* ------------------------------------------------------------------------
\* C22: the length of the nonce.  Every nonce that search returns for a
\* length of HASH_LENGTH / 3 and offset 0 has exactly HASH_LENGTH / 3 trits.
C22_NonceLength ==
    result.op \in {"search", "absorbNonce"} => Len(result.nonce) = HASH_LENGTH \div 3

\* What search returns has HASH_LENGTH / 3 trits, or one tryte more when the
\* count has carried out of the last third of the nonce.
C22_NonceOrTryteMore ==
    result.op \in {"search", "absorbNonce"}
        => Len(result.nonce) \in {HASH_LENGTH \div 3, HASH_LENGTH \div 3 + TRITS_PER_TRYTE}

\* ------------------------------------------------------------------------
\* C23: one-time keys are used once.  On a channel state with count and
\* nextCount of 1 or more, equal or not, no two messages that createMessage
\* returned were signed with the key of the same leaf start + index.
C23_KeysUsedOnce ==
    (channelState # NoChannel /\ channelState.count >= 1 /\ channelState.nextCount >= 1)
        => \A i, j \in 1..Len(sent) : i # j => sent[i].leaf # sent[j].leaf

\* They are when the next window is no smaller than the window; when it is
\* smaller, the message after the last of a window is signed with the key of
\* a leaf of that window: of two messages published from the last leaf of a
\* window of two with a next window of one, both are signed with the key of
\* that leaf.
C23_KeysOfWindows ==
    (channelState # NoChannel /\ channelState.count >= 1 /\ channelState.nextCount >= 1)
        => /\ channelState.nextCount >= channelState.count
                 => \A i, j \in 1..Len(sent) : i # j => sent[i].leaf # sent[j].leaf
           /\ (/\ Len(sent) = 2
               /\ channelState.count = 2 /\ channelState.nextCount = 1
               /\ channelState.index = 1)
                 => /\ sent[1].leaf = sent[2].leaf
                    /\ sent[1].payload # sent[2].payload

\* ------------------------------------------------------------------------
\* C24: chain linkage across windows.  For every count and nextCount of 1 or
\* more, after a createMessage that returned on the last leaf of the window
\* (index = count - 1 before the call), the nextRoot recorded in the state,
\* the root of the tree of nextCount leaves from start + count, is
\* channelRoot of the state as the call left it.
C24_Linkage ==
    (/\ result.op = "createMessage" /\ ~result.outcome.threw
     /\ ValidState(result.before) /\ result.before.nextCount >= 1
     /\ result.before.index = result.before.count - 1)
        => /\ channelState.nextRoot =
                 fromTrits(MerkleTree(result.before.seed,
                                      result.before.start + result.before.count,
                                      result.before.nextCount,
                                      result.before.security).addressTrits)
           /\ channelRoot(channelState) = [threw |-> FALSE, root |-> channelState.nextRoot]

\* It is when nextCount is count, and is not when they differ: the state left
\* has the window of count leaves from start + nextCount.
C24_LinkageOfEqualWindows ==
    (/\ result.op = "createMessage" /\ ~result.outcome.threw
     /\ ValidState(result.before) /\ result.before.nextCount >= 1
     /\ result.before.index = result.before.count - 1)
        => /\ channelRoot(channelState) =
                 [threw |-> FALSE,
                  root |-> fromTrits(MerkleTree(result.before.seed,
                                                result.before.start + result.before.nextCount,
                                                result.before.count,
                                                result.before.security).addressTrits)]
           /\ (channelRoot(channelState).root = channelState.nextRoot)
                 <=> (result.before.nextCount = result.before.count)

\* ------------------------------------------------------------------------
\* C25: attach and fetch round trip.  For a message that createMessage made
\* and mamAttach attached, with a tag or with none, mamFetch of its root with
\* the channel's mode and side key, from a client that has only that message
\* there, returns the message decoded, its nextRoot and the tag, and never
\* undefined.
C25_RoundTrip ==
    (/\ result.op = "mamFetch"
     /\ result.kind \in {"tagged", "untagged", "tagged long"}
     /\ result.sideKey = channelState.sideKey)
        => /\ ~result.outcome.threw
           /\ result.outcome.decoded
           /\ result.outcome.message = sent[result.k].message
           /\ result.outcome.nextRoot =
                 IF result.k < Len(sent) THEN sent[result.k + 1].root
                 ELSE channelState.nextRoot
           /\ result.outcome.tag = Slice(result.messages[1].rest, 0, result.messages[1].first)

\* It does for a tag of 1 to 27 characters; for a message attached with no
\* tag, or with a tag of 28 characters, it returns undefined.
C25_RoundTripOfTagged ==
    (/\ result.op = "mamFetch"
     /\ result.kind \in {"tagged", "untagged", "tagged long"}
     /\ result.sideKey = channelState.sideKey)
        => IF result.kind = "tagged"
           THEN /\ ~result.outcome.threw
                /\ result.outcome.decoded
                /\ result.outcome.message = sent[result.k].message
                /\ result.outcome.nextRoot =
                      IF result.k < Len(sent) THEN sent[result.k + 1].root
                      ELSE channelState.nextRoot
                /\ result.outcome.tag = FetchTag
           ELSE result.outcome = NotDecoded

\* ------------------------------------------------------------------------
\* C26: foreign data cannot hide a valid message.  decodeMessages returns the
\* first message of the list that is a valid message of the root and side
\* key; messages that are not (another payload type, data too short, a tag
\* length of 0 or above 27, a parse failure) are skipped wherever they are in
\* the list.
C26_FirstValidReturned ==
    (result.op = "mamFetch" /\ result.sideKey = channelState.sideKey)
        => LET messages == SelectSeq(result.messages, LAMBDA message : message.found)
               valid == {i \in 1..Len(messages) :
                            Decodes(messages[i], sent[result.k].root, result.sideKey)}
           IN  IF valid = {} THEN result.outcome = NotDecoded
               ELSE LET first == CHOOSE i \in valid : \A j \in valid : i <= j
                    IN  /\ ~result.outcome.threw
                        /\ result.outcome.decoded
                        /\ result.outcome.message = sent[result.k].message
                        /\ result.outcome.tag = Slice(messages[first].rest, 0, messages[first].first)

\* Messages of another payload type, with too short data or that fail to
\* parse are skipped; a message with a tag length of 0 or above 27 ends the
\* search, and the valid message after it is not returned.
C26_TagLengthEndsSearch ==
    (result.op = "mamFetch" /\ result.sideKey = channelState.sideKey)
        => /\ result.kind \in {"forged, tagged", "transaction, short, tagged"}
                 => (result.outcome.decoded /\ result.outcome.tag = FetchTag)
           /\ result.kind \in {"untagged, tagged", "tagged long, tagged"}
                 => result.outcome = NotDecoded

\* ------------------------------------------------------------------------
\* A subscriber fetching a whole channel.  Every message published on a
\* channel that createChannel returned is attached once, with a tag, and
\* mamFetchAll is called without a limit with the root of the first.

\* localLimit when limit is undefined: Number.MAX_VALUE, above any number of
\* messages.
NoLimit == 2147483647

FetchAllChannels ==
    {[mode |-> "public", sideKey |-> Undefined],
     [mode |-> "restricted", sideKey |-> ShortKey],
     [mode |-> "restricted", sideKey |-> PaddedKey]}

\* mamFetchAll(client, root of the first message, mode, sideKey)
MamFetchAllPublished ==
    /\ Len(sent) >= 1
    /\ result = NoResult
    /\ result' = [op |-> "mamFetchAll, no limit",
                  outcome |-> mamFetchAll(ClientOf([k \in 1..Len(sent) |-> "tagged"]),
                                          sent[1].root, channelState.mode,
                                          channelState.sideKey, NoLimit)]
    /\ UNCHANGED <<channelState, sent>>

NextFetchAll ==
    \/ \E c \in FetchAllChannels, security \in 1..3 :
          CreateChannel(LeafSeed, security, c.mode, c.sideKey)
    \/ \E message \in Messages : CreateMessage(message)
    \/ MamFetchAllPublished
    \/ Return

SpecFetchAll == Init /\ [][NextFetchAll]_vars

\* ------------------------------------------------------------------------
\* C27: fetch-all completeness and order.  mamFetchAll without a limit, of
\* the root of the first message of a channel whose messages were each
\* attached once with a tag, returns exactly the messages published, in the
\* order of publication: the first has the first root, and each next one has
\* for root the nextRoot of the one before.
C27_CompleteInOrder ==
    result.op = "mamFetchAll, no limit"
        => /\ ~result.outcome.threw
           /\ Len(result.outcome.messages) = Len(sent)
           /\ \A k \in 1..Len(result.outcome.messages) :
                 /\ result.outcome.messages[k].message = sent[k].message
                 /\ result.outcome.messages[k].root = sent[k].root
                 /\ result.outcome.messages[k].tag = FetchTag
                 /\ k < Len(result.outcome.messages)
                       => result.outcome.messages[k + 1].root = result.outcome.messages[k].nextRoot

\* The number of messages from message k that parseMessage returns for, up
\* to the first it throws for.
RECURSIVE ParsedFrom(_)
ParsedFrom(k) ==
    IF k > Len(sent) THEN 0
    ELSE IF parseMessage(sent[k].payload, sent[k].root, channelState.sideKey).threw THEN 0
    ELSE 1 + ParsedFrom(k + 1)

\* What mamFetchAll returns is the messages published before the first that
\* parseMessage throws for, in order: all of them when it throws for none.
C27_UpToFirstRejected ==
    result.op = "mamFetchAll, no limit"
        => /\ ~result.outcome.threw
           /\ Len(result.outcome.messages) = ParsedFrom(1)
           /\ \A k \in 1..Len(result.outcome.messages) :
                 /\ result.outcome.messages[k].message = sent[k].message
                 /\ result.outcome.messages[k].root = sent[k].root
                 /\ result.outcome.messages[k].tag = FetchTag
                 /\ k < Len(result.outcome.messages)
                       => result.outcome.messages[k + 1].root = result.outcome.messages[k].nextRoot

\* ------------------------------------------------------------------------
\* C28: parser and publisher agree on the security level.  For every message
\* createMessage made on a channel of security L, the security level
\* parseMessage derives, with the channel's side key, from the sponge's rate
\* after it unmasked the nonce is L, not 0 and no other level; the signature
\* it reads has L fragments, the length of the private key that signed.
C28_SecurityLevel ==
    (result.op = "parseMessage" /\ result.changed = "nothing")
        => LET securityLevel == parsedSecurityLevel(result.payload, result.root,
                                                    result.channelKey)
           IN  /\ securityLevel = channelState.security
               /\ securityLevel * PRIVATE_KEY_FRAGMENT_LENGTH =
                     Len(leafAddress(channelState.seed, sent[result.k].leaf,
                                     channelState.security).privateKey)

\* A message of a channel of security 3 was parsed: the rate after the nonce
\* sums to 0 and neither its first third nor its first two thirds do.
C28_Witness ==
    /\ result.op = "parseMessage" /\ result.changed = "nothing"
    /\ channelState.security = 3
    /\ parsedSecurityLevel(result.payload, result.root, result.channelKey) = 3
    /\ ~result.outcome.threw

\* ------------------------------------------------------------------------
\* The bit-sliced transform by itself.  The states of a search are prepared
\* from the state of a sponge, the count in the last third of the nonce is
\* incremented some times, and the states are transformed.

MaxTries == 5

\* The states after tries calls of increment, as search calls it.
RECURSIVE Incremented(_, _)
Incremented(states, tries) ==
    IF tries = 0 THEN states
    ELSE Incremented(increment(states, (2 * (HASH_LENGTH \div 3)) \div 3,
                               HASH_LENGTH \div 3).states, tries - 1)

\* this.transform(curlCopy), of the states of a search after some tries
DiverTransform(state, tries) ==
    /\ result = NoResult
    /\ LET searchStates == Incremented(prepareTrits(state, 0), tries)
       IN  result' = [op |-> "HammingDiver.transform", tries |-> tries,
                      before |-> searchStates, after |-> diverTransform(searchStates)]
    /\ UNCHANGED <<channelState, sent>>

NextTransform ==
    \/ \E state \in SearchedStates, tries \in 0..MaxTries : DiverTransform(state, tries)
    \/ Return

SpecTransform == Init /\ [][NextTransform]_vars

\* The words of a trit in one lane.
WordsOf(trit) == IF trit = 0 THEN Pair(1, 1) ELSE IF trit = 1 THEN Pair(0, 1) ELSE Pair(1, 0)

\* ------------------------------------------------------------------------
\* C29: the bit-sliced permutation refines the ternary one.  With 0 as (low
\* 1, high 1), +1 as (low 0, high 1) and -1 as (low 1, high 0),
\* HammingDiver.transform computes in each of the 64 lanes the state that
\* Curl.transform with 27 rounds computes on the trits of that lane: for
\* every pair of trits (a, b) the words it computes are those of
\* TRUTH_TABLE[a + 4b + 5], the scanning index takes every index once a round
\* and is back at 0 after it, and no lane has (low 0, high 0) at any index.
C29_Refinement ==
    result.op = "HammingDiver.transform"
        => /\ \A l \in Lanes :
                 /\ \A i \in 1..STATE_LENGTH :
                       result.before[l][i] # Pair(0, 0) /\ result.after[l][i] # Pair(0, 0)
                 /\ trinaryGet(result.after, STATE_LENGTH, l)
                       = CurlRounds(trinaryGet(result.before, STATE_LENGTH, l), 27)
           /\ \A a, b \in -1..1 :
                 SlicedCell(WordsOf(a), WordsOf(b)) = WordsOf(TRUTH_TABLE[a + (4 * b) + 5 + 1])
           /\ ScanFromZero[STATE_LENGTH + 1] = 0
           /\ {ScanFromZero[i] : i \in 1..STATE_LENGTH} = 0..(STATE_LENGTH - 1)
           /\ ROUNDS = 27

\* States were transformed after the count was incremented: the lanes, which
\* differ in their first trits, are transformed to different states, none of
\* them the state before.
C29_Witness ==
    /\ result.op = "HammingDiver.transform"
    /\ result.tries > 0
    /\ result.after[0] # result.after[1]
    /\ result.after[63] # result.before[63]
    /\ \E i \in 1..STATE_LENGTH : result.after[5][i] = Pair(0, 1)
    /\ \E i \in 1..STATE_LENGTH : result.after[5][i] = Pair(1, 0)

\* ------------------------------------------------------------------------
\* C30: side-key padding is immaterial to parsing.  parseMessage returns the
\* same outcome for a side key and for that key padded with '9' to the length
\* of a hash, and for no side key and a key of '9's; so mamFetch called with
\* the side key as it was given to createChannel, not padded, decodes the
\* messages createMessage built with the padded key.
C30_PaddingImmaterial ==
    (result.op = "mamFetch" /\ validateModeKey(channelState.mode, result.sideKey) = "returns")
        => LET padded == IF result.sideKey = Undefined THEN Nines(HASH_TRYTES)
                         ELSE padEnd(result.sideKey, HASH_TRYTES)
               root == sent[result.k].root
               client == ClientOf([j \in 1..Len(sent) |->
                                      IF j = result.k THEN result.kind ELSE "nothing"])
           IN  /\ \A i \in 1..Len(result.messages) :
                     LET message == result.messages[i]
                         msg == Slice(message.rest, message.first, Len(message.rest))
                     IN  (message.found /\ message.type = 2)
                            => parseMessage(msg, root, result.sideKey)
                                  = parseMessage(msg, root, padded)
               /\ channelState.mode = "restricted"
                     => /\ padded = channelState.sideKey
                        /\ result.outcome
                              = mamFetch(client, root, channelState.mode, channelState.sideKey)
                        /\ result.kind = "tagged"
                              => /\ result.outcome.decoded
                                 /\ result.outcome.message = sent[result.k].message

\* mamFetch was called with the side key given to createChannel, shorter than
\* a hash, and returned the message built with the padded key.
C30_Witness ==
    /\ result.op = "mamFetch"
    /\ channelState.mode = "restricted"
    /\ result.sideKey = ShortKey
    /\ result.sideKey # channelState.sideKey
    /\ result.kind = "tagged"
    /\ result.outcome.decoded
    /\ result.outcome.message = sent[result.k].message
====
